---- MODULE Spec2Model ----
(***************************************************************************)
(* MeasureLab measurement canvas (Viewer component and its page).          *)
(*                                                                         *)
(* Numbers.  The program computes with IEEE doubles.  The model computes   *)
(* with exact rationals <<n, d>> (d > 0, lowest terms), so a statement     *)
(* that holds here holds of the program up to floating-point rounding.     *)
(* A Euclidean distance Math.sqrt(q) is carried as the exact root of q;    *)
(* the pointer positions of the model keep every such q a perfect square.  *)
(*                                                                         *)
(* Events.  Konva raises "mouseup" and then "click" for one physical       *)
(* click; the two handlers are the actions MouseUp and Click (or           *)
(* ShapeClick when the click lands on a measurement shape).  Both are       *)
(* raised from one DOM event and React applies the state updates of the    *)
(* mouseup handler after that event, so the click handler is a closure     *)
(* over the state of the render that preceded the mouseup (variable        *)
(* closure), while its own updates are applied after those of the mouseup. *)
(***************************************************************************)
EXTENDS Integers, Sequences, FiniteSets, TLC

(***************************************************************************)
(* Exact rational arithmetic                                               *)
(***************************************************************************)
Abs(i) == IF i < 0 THEN -i ELSE i

RECURSIVE Gcd(_, _)
Gcd(a, b) == IF b = 0 THEN a ELSE Gcd(b, a % b)

Norm(n, d) ==
  LET s == IF d < 0 THEN -1 ELSE 1
      g == Gcd(Abs(n), Abs(d))
  IN  <<(s * n) \div g, (s * d) \div g>>

R(i) == <<i, 1>>
Frac(n, d) == Norm(n, d)
\* sums over the least common denominator, to keep the integers small
RAdd(a, b) ==
  LET g == Gcd(a[2], b[2])
  IN  Norm(a[1] * (b[2] \div g) + b[1] * (a[2] \div g), (a[2] \div g) * b[2])
RNeg(a) == <<-a[1], a[2]>>
RSub(a, b) == RAdd(a, RNeg(b))
RMul(a, b) ==
  LET x == Norm(a[1], b[2])
      y == Norm(b[1], a[2])
  IN  <<x[1] * y[1], x[2] * y[2]>>
RDiv(a, b) == RMul(a, Norm(b[2], b[1]))
RLt(a, b) ==
  LET g == Gcd(a[2], b[2])
  IN  a[1] * (b[2] \div g) < b[1] * (a[2] \div g)
RLe(a, b) == ~RLt(b, a)
RMin(a, b) == IF RLe(a, b) THEN a ELSE b
RMax(a, b) == IF RLe(a, b) THEN b ELSE a
RAbs(a) == <<Abs(a[1]), a[2]>>
RZero == R(0)

\* Math.sqrt on the perfect squares the model produces
ISqrt(n) == CHOOSE r \in 0..n : r * r <= n /\ (r + 1) * (r + 1) > n
Sqrt(a) == Norm(ISqrt(a[1]), ISqrt(a[2]))

Pt(x, y) == [x |-> x, y |-> y]
DistSq(p, q) ==
  LET dx == RSub(q.x, p.x)
      dy == RSub(q.y, p.y)
  IN  RAdd(RMul(dx, dx), RMul(dy, dy))

(***************************************************************************)
(* Geometry (utils/geometry.ts)                                            *)
(***************************************************************************)
Rect(x, y, w, h) == [x |-> x, y |-> y, width |-> w, height |-> h]
RGe(a, b) == RLe(b, a)

pointInRect(point, rect) ==
  LET minX == RMin(rect.x, RAdd(rect.x, rect.width))
      maxX == RMax(rect.x, RAdd(rect.x, rect.width))
      minY == RMin(rect.y, RAdd(rect.y, rect.height))
      maxY == RMax(rect.y, RAdd(rect.y, rect.height))
  IN  /\ RGe(point.x, minX) /\ RLe(point.x, maxX)
      /\ RGe(point.y, minY) /\ RLe(point.y, maxY)

linesIntersect(p1, p2, p3, p4) ==
  LET dx == RSub(p2.x, p1.x)
      dy == RSub(p2.y, p1.y)
      denom == RSub(RMul(RSub(p4.y, p3.y), dx), RMul(RSub(p4.x, p3.x), dy))
      \* numerator of the distance of q from the line through p1 and p2
      num(q) == RAbs(RAdd(RSub(RMul(dy, q.x), RMul(dx, q.y)),
                          RSub(RMul(p2.x, p1.y), RMul(p2.y, p1.x))))
      lenSq == RAdd(RMul(dy, dy), RMul(dx, dx))
      \* num / sqrt(lenSq) < 0.001; a division by zero gives NaN or Infinity
      close(q) == /\ lenSq # RZero
                  /\ RLt(RMul(num(q), num(q)), RMul(lenSq, Frac(1, 1000000)))
      TOLERANCE == Frac(1, 10000)
  IN  IF RLt(RAbs(denom), Frac(1, 10000))
      THEN /\ close(p3) /\ close(p4)
           /\ ~(\/ RLt(RMax(p1.x, p2.x), RMin(p3.x, p4.x))
                \/ RLt(RMax(p3.x, p4.x), RMin(p1.x, p2.x))
                \/ RLt(RMax(p1.y, p2.y), RMin(p3.y, p4.y))
                \/ RLt(RMax(p3.y, p4.y), RMin(p1.y, p2.y)))
      ELSE LET ua == RDiv(RSub(RMul(RSub(p4.x, p3.x), RSub(p1.y, p3.y)),
                               RMul(RSub(p4.y, p3.y), RSub(p1.x, p3.x))), denom)
               ub == RDiv(RSub(RMul(dx, RSub(p1.y, p3.y)),
                               RMul(dy, RSub(p1.x, p3.x))), denom)
           IN  /\ RGe(ua, RNeg(TOLERANCE)) /\ RLe(ua, RAdd(R(1), TOLERANCE))
               /\ RGe(ub, RNeg(TOLERANCE)) /\ RLe(ub, RAdd(R(1), TOLERANCE))

lineIntersectsRect(p1, p2, rect) ==
  LET minX == RMin(rect.x, RAdd(rect.x, rect.width))
      maxX == RMax(rect.x, RAdd(rect.x, rect.width))
      minY == RMin(rect.y, RAdd(rect.y, rect.height))
      maxY == RMax(rect.y, RAdd(rect.y, rect.height))
      TOLERANCE == Frac(1, 1000)
      at(a, b) == RLt(RAbs(RSub(a, b)), TOLERANCE)
      spans(a1, a2, lo, hi) ==
        \/ (RGe(a1, lo) /\ RLe(a1, hi)) \/ (RGe(a2, lo) /\ RLe(a2, hi))
        \/ (RLe(a1, lo) /\ RGe(a2, hi)) \/ (RLe(a2, lo) /\ RGe(a1, hi))
      isOnTopEdge == at(p1.y, minY) /\ at(p2.y, minY) /\ spans(p1.x, p2.x, minX, maxX)
      isOnBottomEdge == at(p1.y, maxY) /\ at(p2.y, maxY) /\ spans(p1.x, p2.x, minX, maxX)
      isOnLeftEdge == at(p1.x, minX) /\ at(p2.x, minX) /\ spans(p1.y, p2.y, minY, maxY)
      isOnRightEdge == at(p1.x, maxX) /\ at(p2.x, maxX) /\ spans(p1.y, p2.y, minY, maxY)
  IN  \/ pointInRect(p1, rect) \/ pointInRect(p2, rect)
      \/ isOnTopEdge \/ isOnBottomEdge \/ isOnLeftEdge \/ isOnRightEdge
      \/ linesIntersect(p1, p2, Pt(minX, minY), Pt(maxX, minY))
      \/ linesIntersect(p1, p2, Pt(maxX, minY), Pt(maxX, maxY))
      \/ linesIntersect(p1, p2, Pt(maxX, maxY), Pt(minX, maxY))
      \/ linesIntersect(p1, p2, Pt(minX, maxY), Pt(minX, minY))

RECURSIVE MinOf(_)
\* the least of the values (the Math.min loop of getBoundingBox)
MinOf(xs) == IF Len(xs) = 1 THEN xs[1] ELSE RMin(Head(xs), MinOf(Tail(xs)))

RECURSIVE MaxOf(_)
\* the greatest of the values (the Math.max loop of getBoundingBox)
MaxOf(xs) == IF Len(xs) = 1 THEN xs[1] ELSE RMax(Head(xs), MaxOf(Tail(xs)))

getBoundingBox(points) ==
  IF Len(points) = 0 THEN Rect(RZero, RZero, RZero, RZero)
  ELSE LET xs == [i \in 1..Len(points) |-> points[i].x]
           ys == [i \in 1..Len(points) |-> points[i].y]
           minX == MinOf(xs)
           minY == MinOf(ys)
           maxX == MaxOf(xs)
           maxY == MaxOf(ys)
       IN  Rect(minX, minY, RSub(maxX, minX), RSub(maxY, minY))

rectsIntersect(r1, r2) ==
  ~(\/ RLt(RAdd(r1.x, r1.width), r2.x)
    \/ RLt(RAdd(r2.x, r2.width), r1.x)
    \/ RLt(RAdd(r1.y, r1.height), r2.y)
    \/ RLt(RAdd(r2.y, r2.height), r1.y))

\* isPointNear: pointDistance(point, target) <= threshold, compared on the
\* squares (both sides are non-negative)
isPointNear(point, target, threshold) ==
  RLe(DistSq(point, target), RMul(threshold, threshold))

(***************************************************************************)
(* Program constants                                                       *)
(***************************************************************************)
MIN_SCALE == Frac(1, 10)
MAX_SCALE == R(5)
ZOOM_FACTOR_IN == Frac(11, 10)
ZOOM_FACTOR_OUT == Frac(9, 10)
CLOSE_POLYGON_THRESHOLD == 10
ENDPOINT_RADIUS == 4
DRAG_THRESHOLD == 5
PAN_DRAG_THRESHOLD == 10
COUNT_RADIUS == 8
COUNT_SIZE == 16

(***************************************************************************)
(* Bounds of the model                                                     *)
(***************************************************************************)
MaxWheel == 3
\* measurements kept in the list
MaxMeasurements == 1
\* points of a draft
MaxPoints == 3

Size(w, h) == [width |-> w, height |-> h]
\* size of the container the stage fills
ContainerSize == Size(40, 40)
\* images (or rendered PDF pages) that can be loaded
ImageSizes == {Size(20, 10), Size(80, 40), Size(4, 4), Size(800, 400)}
\* images already loaded when a behaviour of Spec starts
InitImages == {Size(20, 10)}
\* device positions of the pointer
Pointers == {<<0, 0>>, <<8, 0>>, <<16, 0>>}

\* tools the Viewer accepts in its activeTool prop ("none" is null)
Tools == {"none", "length", "area", "count", "calibrate", "select", "pan"}
\* texts of the distance field of the calibration prompt
DistanceInputs == {"", "0", "-3", "5"}
Units == {"ft", "m"}

\* viewport
VARIABLES scale, position, imageSize, stageSize, wheelCount
\* page state: active tool, measurement list, selection, calibration, page
VARIABLES activeTool, measurements, nextId, selectedMeasurementIds,
          calibration, activePage
\* capture state of the Viewer; pendingPreview is the position held by the
\* frame-throttled preview update until the next rendering frame
VARIABLES activeMeasurementType, currentPoints, previewPoint, pendingPreview
\* calibration prompt
VARIABLES calibrationPoints, showCalibrationDialog, calibrationDistance,
          calibrationUnits
\* rectangle selection and pan
VARIABLES isSelecting, selectionStart, selectionRect, pendingSelectionRect,
          rectVisible, justCompletedSelection, isDragging, dragStart,
          mouseDownPos
\* the physical click in progress: phase is "idle", "down" (after
\* mousedown) or "up" (after mouseup, before click); evt holds the pointer
\* position, the node under it (start: the node under the mousedown), the
\* modifier keys of the mouseup and whether the selection rectangle has been
\* shown since the mousedown (hitTested: the rectangle the mouseup
\* hit-tested, if it did; far: the pointer has been more than
\* DRAG_THRESHOLD device pixels away from the stored mousedown position);
\* closure holds the state the handlers of the
\* render preceding the mouseup were built over
VARIABLES phase, evt, closure
\* history: what the latest physical click, key or button did that a
\* property needs to know of: "finalized" (a click emitted a Linear or
\* Surface), "entered" (Enter emitted one), "escaped" (Escape discarded a
\* draft; "escapedPreview" when a preview point was on screen), "picked"
\* or "toggled" (a click on a measurement in select mode,
\* without or with a modifier key), "committed", "rejected" or "cancelled"
\* (the calibration prompt was answered), "selectedAll" (Ctrl/Cmd+A in
\* select mode), else "none"
VARIABLE lastEffect
\* the estimate: the inputs and finish level handed to calculateLabor and
\* the labor hours it returned (<<>> before the first calculation)
VARIABLES inputs, finishLevel, labor
\* the group name dialog of the page is open (isDialogOpen of the Viewer)
VARIABLE showGroupDialog

estimateVars == <<inputs, finishLevel, labor>>
\* page state that no handler of the canvas touches; it rides with the view
sideVars == <<estimateVars, showGroupDialog>>
viewVars == <<scale, position, imageSize, stageSize, wheelCount, sideVars>>
pageVars == <<activeTool, measurements, nextId, selectedMeasurementIds,
              calibration, activePage>>
captureVars == <<activeMeasurementType, currentPoints, previewPoint,
                 pendingPreview>>
promptVars == <<calibrationPoints, showCalibrationDialog, calibrationDistance,
                calibrationUnits>>
dragVars == <<isSelecting, selectionStart, selectionRect, pendingSelectionRect,
              rectVisible, justCompletedSelection, isDragging, dragStart,
              mouseDownPos>>
clickVars == <<phase, evt, closure, lastEffect>>
engineVars == <<pageVars, captureVars, promptVars, dragVars, clickVars>>
vars == <<viewVars, engineVars>>

NoNode == [kind |-> "stage", id |-> 0, idx |-> 0]
NoEvt == [pointer |-> <<0, 0>>, kind |-> "stage", id |-> 0, idx |-> 0,
          start |-> NoNode, shiftKey |-> FALSE, ctrlKey |-> FALSE,
          metaKey |-> FALSE, shown |-> FALSE, hitTested |-> <<>>,
          far |-> FALSE]
NoClosure == [activeMeasurementType |-> "none", isSelecting |-> FALSE,
              hasSelectionRect |-> FALSE]

(***************************************************************************)
(* Coordinate transform                                                    *)
(***************************************************************************)
\* calculateImageOffset: every use of the offset sees the value for the
\* current scale (useMemo over stageSize, imageSize, scale)
calculateImageOffset(stage, image, s) ==
  LET scaledWidth == RMul(R(image.width), s)
      scaledHeight == RMul(R(image.height), s)
  IN  Pt(RDiv(RDiv(RSub(R(stage.width), scaledWidth), R(2)), s),
         RDiv(RDiv(RSub(R(stage.height), scaledHeight), R(2)), s))

pointerToImageCoordinates(pointer, stagePosition, s, off) ==
  LET stageX == RDiv(RSub(R(pointer[1]), stagePosition.x), s)
      stageY == RDiv(RSub(R(pointer[2]), stagePosition.y), s)
  IN  Pt(RSub(stageX, off.x), RSub(stageY, off.y))

imageOffset == calculateImageOffset(stageSize, imageSize, scale)

getImageCoordinatesFromPointer(pointer) ==
  pointerToImageCoordinates(pointer, position, scale, imageOffset)

Clamp(s) == RMax(MIN_SCALE, RMin(MAX_SCALE, s))

\* img.onload (image files and rendered PDF pages alike): the container is
\* the element the stage fills, so its client size is stageSize
InitialScale(container, image) ==
  RMin(Frac(container.width, image.width), Frac(container.height, image.height))

ImageLoad(image) ==
  /\ imageSize' = image
  /\ scale' = InitialScale(stageSize, image)
  /\ position' = Pt(RZero, RZero)
  /\ UNCHANGED <<stageSize, wheelCount, sideVars, engineVars>>

WheelScale(oldScale, zoomOut) ==
  Clamp(IF zoomOut THEN RMul(oldScale, ZOOM_FACTOR_OUT)
                   ELSE RMul(oldScale, ZOOM_FACTOR_IN))

\* handleWheel keeping the centring offset of the old scale
WheelPositionOldOffset(pointer, oldScale, clampedScale) ==
  LET stageX == RDiv(RSub(R(pointer[1]), position.x), oldScale)
      stageY == RDiv(RSub(R(pointer[2]), position.y), oldScale)
      mousePointTo == Pt(RSub(stageX, imageOffset.x), RSub(stageY, imageOffset.y))
      newStageX == RAdd(mousePointTo.x, imageOffset.x)
      newStageY == RAdd(mousePointTo.y, imageOffset.y)
  IN  Pt(RSub(R(pointer[1]), RMul(newStageX, clampedScale)),
         RSub(R(pointer[2]), RMul(newStageY, clampedScale)))

WheelPosition(pointer, oldScale, clampedScale) ==
  LET stageX == RDiv(RSub(R(pointer[1]), position.x), oldScale)
      stageY == RDiv(RSub(R(pointer[2]), position.y), oldScale)
      mousePointTo == Pt(RSub(stageX, imageOffset.x), RSub(stageY, imageOffset.y))
      newImageOffset == calculateImageOffset(stageSize, imageSize, clampedScale)
      newStageX == RAdd(mousePointTo.x, newImageOffset.x)
      newStageY == RAdd(mousePointTo.y, newImageOffset.y)
  IN  Pt(RSub(R(pointer[1]), RMul(newStageX, clampedScale)),
         RSub(R(pointer[2]), RMul(newStageY, clampedScale)))

handleWheel(pointer, zoomOut) ==
  /\ wheelCount < MaxWheel
  /\ LET clampedScale == WheelScale(scale, zoomOut)
     IN  /\ scale' = clampedScale
         /\ position' = WheelPosition(pointer, scale, clampedScale)
  /\ wheelCount' = wheelCount + 1
  /\ UNCHANGED <<imageSize, stageSize, sideVars, engineVars>>

FitScale(stage, image) ==
  Clamp(RMin(Frac(stage.width, image.width), Frac(stage.height, image.height)))

handleFitToView ==
  /\ ~(imageSize.width = 0 \/ imageSize.height = 0
       \/ stageSize.width = 0 \/ stageSize.height = 0)
  /\ scale' = FitScale(stageSize, imageSize)
  /\ position' = Pt(RZero, RZero)
  /\ UNCHANGED <<imageSize, stageSize, wheelCount, sideVars,
                 engineVars>>

(***************************************************************************)
(* The drywall estimate (lib/estimate/calc.ts)                             *)
(***************************************************************************)
\* defaultEstimateConfig.labor: hours per square foot and fixed hours
hangingHoursPerSF == Frac(1, 20)
finishingHoursPerSF(level) ==
  CASE level = 1 -> Frac(1, 50)
    [] level = 2 -> Frac(1, 25)
    [] level = 3 -> Frac(2, 25)
    [] level = 4 -> Frac(3, 25)
    [] level = 5 -> Frac(4, 25)
cleanupHours == R(2)
FinishLevels == 1..5

\* inputs.openings.reduce((sum, opening) => sum + opening.areaSF, 0)
RECURSIVE totalOpeningSF(_)
totalOpeningSF(openings) ==
  IF openings = <<>> THEN RZero
  ELSE RAdd(totalOpeningSF(SubSeq(openings, 1, Len(openings) - 1)),
            openings[Len(openings)].areaSF)

calculateAreas(in) ==
  LET netWallSF == RMax(RZero, RSub(in.wallAreaSF, totalOpeningSF(in.openings)))
      netCeilingSF == in.ceilingAreaSF
  IN  [netWallSF |-> netWallSF, netCeilingSF |-> netCeilingSF,
       totalSF |-> RAdd(netWallSF, netCeilingSF)]

calculateLabor(in, level) ==
  LET totalSF == calculateAreas(in).totalSF
      hanging == RMul(totalSF, hangingHoursPerSF)
      rate == finishingHoursPerSF(level)
      finishing == [l \in FinishLevels |-> RMul(totalSF, finishingHoursPerSF(l))]
      cleanup == cleanupHours
  IN  [hanging |-> hanging, finishing |-> finishing, cleanup |-> cleanup,
       total |-> RAdd(RAdd(hanging, rate), cleanup)]

\* calculateEstimate: the labor hours of the current inputs
EstimateLabor ==
  /\ labor' = <<calculateLabor(inputs, finishLevel)>>
  /\ UNCHANGED <<inputs, finishLevel, showGroupDialog, scale, position,
                 imageSize, stageSize, wheelCount, engineVars>>

Opening(areaSF) == [type |-> "door", areaSF |-> R(areaSF)]
EstimateInputs(wall, ceiling, openings) ==
  [wallAreaSF |-> R(wall), ceilingAreaSF |-> R(ceiling), openings |-> openings]

\* the estimate of an empty takeoff at the panel's finish level, not yet
\* calculated
InitEstimate ==
  /\ inputs = EstimateInputs(0, 0, <<>>)
  /\ finishLevel = 3
  /\ labor = <<>>

\* useState(false) of showGroupDialog
InitSide == InitEstimate /\ showGroupDialog = FALSE

InitView ==
  /\ stageSize = ContainerSize
  /\ \E image \in InitImages :
       /\ imageSize = image
       /\ scale = InitialScale(stageSize, image)
  /\ position = Pt(RZero, RZero)
  /\ wheelCount = 0
  /\ InitSide

\* useState initial values of the page and of the Viewer
InitEngine ==
  /\ activeTool = "none"
  /\ measurements = <<>>
  /\ nextId = 1
  /\ selectedMeasurementIds = {}
  /\ calibration = <<>>
  /\ activePage = 1
  /\ activeMeasurementType = "none"
  /\ currentPoints = <<>>
  /\ previewPoint = <<>>
  /\ pendingPreview = <<>>
  /\ calibrationPoints = <<>>
  /\ showCalibrationDialog = FALSE
  /\ calibrationDistance = ""
  /\ calibrationUnits = "ft"
  /\ isSelecting = FALSE
  /\ selectionStart = <<>>
  /\ selectionRect = <<>>
  /\ pendingSelectionRect = <<>>
  /\ rectVisible = FALSE
  /\ justCompletedSelection = FALSE
  /\ isDragging = FALSE
  /\ dragStart = <<>>
  /\ mouseDownPos = <<>>
  /\ phase = "idle"
  /\ evt = NoEvt
  /\ closure = NoClosure
  /\ lastEffect = "none"

Init == InitView /\ InitEngine

NextView ==
  \/ \E image \in ImageSizes : ImageLoad(image)
  \/ \E pointer \in Pointers, zoomOut \in BOOLEAN : handleWheel(pointer, zoomOut)
  \/ handleFitToView

SpecView == Init /\ [][NextView]_vars

(***************************************************************************)
(* Measurements and the shapes drawn for them                              *)
(***************************************************************************)
RECURSIVE CountOfType(_, _)
\* measurements.filter(m => m.type === type).length
CountOfType(ms, type) ==
  IF ms = <<>> THEN 0
  ELSE (IF Head(ms).type = type THEN 1 ELSE 0) + CountOfType(Tail(ms), type)

NamePrefix(type) ==
  CASE type = "length" -> "Linear"
    [] type = "area" -> "Surface"
    [] OTHER -> "Count"

\* a value of type number: a finite value, Infinity or NaN
Num(r) == [kind |-> "num", v |-> r]
Infinity == [kind |-> "inf", v |-> RZero]
NaN == [kind |-> "nan", v |-> RZero]

\* toBase[fromUnit] || 1; the square of a unit is written with a 2
toBase(unit) ==
  CASE unit = "in" -> Frac(1, 12)
    [] unit = "m" -> Frac(328084, 100000)
    [] unit = "cm" -> Frac(328084, 10000000)
    [] unit = "mm" -> Frac(328084, 100000000)
    [] unit = "in2" -> Frac(1, 144)
    [] unit = "m2" -> Frac(107639, 10000)
    [] unit = "cm2" -> Frac(107639, 100000000)
    [] unit = "mm2" -> RMul(Frac(107639, 100000000), Frac(1, 100))
    [] OTHER -> R(1)

fromBase(unit) ==
  CASE unit = "in" -> R(12)
    [] unit = "m" -> Frac(3048, 10000)
    [] unit = "cm" -> Frac(3048, 100)
    [] unit = "mm" -> Frac(3048, 10)
    [] unit = "in2" -> R(144)
    [] unit = "m2" -> Frac(92903, 1000000)
    [] unit = "cm2" -> Frac(92903, 100)
    [] unit = "mm2" -> R(92903)
    [] OTHER -> R(1)

convertUnits(value, fromUnit, toUnit) ==
  RMul(RMul(value, toBase(fromUnit)), fromBase(toUnit))

\* unit + '2' for the superscript two
squareUnit(unit) ==
  CASE unit = "in" -> "in2"
    [] unit = "m" -> "m2"
    [] unit = "cm" -> "cm2"
    [] unit = "mm" -> "mm2"
    [] OTHER -> "ft2"

RECURSIVE TotalPixels(_, _)
\* the sum of the distances of consecutive points, from index i on
TotalPixels(points, i) ==
  IF i > Len(points) THEN RZero
  ELSE RAdd(Sqrt(DistSq(points[i - 1], points[i])), TotalPixels(points, i + 1))

\* value * factor where factor is realDistance / pixelDistance, or its
\* square; a pixelDistance of 0 makes the factor Infinity
Scaled(value, cal, square, fromUnit, toUnit) ==
  IF cal.pixelDistance = RZero
  THEN IF value = RZero THEN NaN ELSE Infinity
  ELSE LET scl == RDiv(cal.realDistance, cal.pixelDistance)
           real == IF square THEN RMul(RMul(value, scl), scl) ELSE RMul(value, scl)
       IN  Num(convertUnits(real, fromUnit, toUnit))

\* a length scaled by every calibration record, whatever its isCalibrated
calculateLengthIgnoringFlag(points, cal) ==
  IF Len(points) < 2 THEN Num(RZero)
  ELSE LET totalPixels == TotalPixels(points, 2)
       IN  IF cal = <<>> THEN Num(totalPixels)
           ELSE Scaled(totalPixels, cal[1], FALSE, cal[1].units, "ft")

calculateLength(points, cal) ==
  IF Len(points) < 2 THEN Num(RZero)
  ELSE LET totalPixels == TotalPixels(points, 2)
       IN  IF cal = <<>> \/ ~cal[1].isCalibrated THEN Num(totalPixels)
           ELSE Scaled(totalPixels, cal[1], FALSE, cal[1].units, "ft")

RECURSIVE Shoelace(_, _)
\* the shoelace sum over the edges from index i on
Shoelace(points, i) ==
  IF i > Len(points) THEN RZero
  ELSE LET j == (i % Len(points)) + 1
       IN  RAdd(RSub(RMul(points[i].x, points[j].y), RMul(points[j].x, points[i].y)),
                Shoelace(points, i + 1))

\* the signed shoelace sum halved, without Math.abs
calculateAreaSigned(points, cal) ==
  IF Len(points) < 3 THEN Num(RZero)
  ELSE LET area == RDiv(Shoelace(points, 1), R(2))
       IN  IF cal = <<>> \/ ~cal[1].isCalibrated THEN Num(area)
           ELSE Scaled(area, cal[1], TRUE, squareUnit(cal[1].units), "ft2")

calculateArea(points, cal) ==
  IF Len(points) < 3 THEN Num(RZero)
  ELSE LET area == RDiv(RAbs(Shoelace(points, 1)), R(2))
       IN  IF cal = <<>> \/ ~cal[1].isCalibrated THEN Num(area)
           ELSE Scaled(area, cal[1], TRUE, squareUnit(cal[1].units), "ft2")

\* the record handed to onMeasurementAdd; a Count holds its point as a
\* one-point list, ids are taken from a counter
NewMeasurement(type, points) ==
  [id |-> nextId,
   type |-> type,
   value |-> CASE type = "length" -> calculateLength(points, calibration)
               [] type = "area" -> calculateArea(points, calibration)
               [] OTHER -> Num(R(1)),
   name |-> <<NamePrefix(type), CountOfType(measurements, type) + 1>>,
   units |-> IF type = "count" \/ calibration = <<>> THEN "ft"
             ELSE calibration[1].units,
   points |-> points,
   pageNumber |-> activePage,
   category |-> "",
   notes |-> "",
   groupId |-> ""]

\* a Count emitted with the value 0
NewCountValueZero(imagePos) ==
  [NewMeasurement("count", <<imagePos>>) EXCEPT !.value = Num(RZero)]

\* the Count handleClick builds
NewCount(imagePos) == NewMeasurement("count", <<imagePos>>)

\* every measurement, whatever its page
PageMeasurementsAllPages == 1..Len(measurements)

\* indices of the measurements of the active page: a record without a page
\* number (0 here) belongs to every page
PageMeasurements ==
  {i \in 1..Len(measurements) :
     measurements[i].pageNumber = 0 \/ measurements[i].pageNumber = activePage}

\* handleMeasurementAdd; at most MaxMeasurements on a page
EmitRecord(measurement) ==
  /\ Cardinality(PageMeasurements) < MaxMeasurements
  /\ measurements' = Append(measurements, measurement)
  /\ nextId' = nextId + 1

Emit(type, points) == EmitRecord(NewMeasurement(type, points))

\* vertices that carry a circle: both ends of a Linear, every vertex of a
\* Surface, the point of a Count
CircleVertices(m) ==
  IF m.type = "length" THEN {1, Len(m.points)} ELSE 1..Len(m.points)

\* a selected Count also has a circle of radius 10 / scale under this one,
\* with the same centre
CircleRadius(m) == IF m.type = "count" THEN COUNT_RADIUS ELSE ENDPOINT_RADIUS

OnCircle(p, m, idx) ==
  isPointNear(p, m.points[idx], RDiv(R(CircleRadius(m)), scale))

\* p lies on the segment from a to b
OnSegment(p, a, b) ==
  LET cross == RSub(RMul(RSub(b.x, a.x), RSub(p.y, a.y)),
                    RMul(RSub(b.y, a.y), RSub(p.x, a.x)))
  IN  cross = RZero /\ pointInRect(p, Rect(a.x, a.y, RSub(b.x, a.x), RSub(b.y, a.y)))

\* the stroke of a Linear or of a Surface (a closed line)
OnLine(p, m) ==
  /\ m.type # "count"
  /\ \/ \E i \in 1..(Len(m.points) - 1) : OnSegment(p, m.points[i], m.points[i + 1])
     \/ m.type = "area" /\ OnSegment(p, m.points[Len(m.points)], m.points[1])

\* the label of a Count: a Text node at (x + 12 / scale, y - 8 / scale) of
\* font size 12 / scale.  Its width depends on the font; it is at most one
\* font size for each character of a name such as "Count 1".
OnLabel(p, m) ==
  /\ m.type = "count"
  /\ LET fontSize == RDiv(R(12), scale)
     IN  pointInRect(p, Rect(RAdd(m.points[1].x, RDiv(R(12), scale)),
                             RSub(m.points[1].y, RDiv(R(8), scale)),
                             RMul(R(7), fontSize), fontSize))

\* The nodes a pointer position can hit: a circle of a measurement, else its
\* line (hit on the centre line of the stroke only), else the empty stage.
\* Where the label of a Count may extend, the label is one more node the
\* pointer may or may not be on.
Targets(pointer) ==
  LET p == getImageCoordinatesFromPointer(pointer)
      circles == UNION {{[kind |-> "circle", id |-> measurements[i].id, idx |-> v] :
                           v \in {w \in CircleVertices(measurements[i]) :
                                    OnCircle(p, measurements[i], w)}} :
                        i \in PageMeasurements}
      lines == {[kind |-> "shape", id |-> measurements[i].id, idx |-> 0] :
                  i \in {j \in PageMeasurements :
                      /\ OnLine(p, measurements[j])
                      /\ \A v \in CircleVertices(measurements[j]) :
                           ~OnCircle(p, measurements[j], v)}}
      labels == {[kind |-> "shape", id |-> measurements[i].id, idx |-> 0] :
                   i \in {j \in PageMeasurements : OnLabel(p, measurements[j])}}
  IN  IF circles \cup lines = {}
      THEN labels \cup {[kind |-> "stage", id |-> 0, idx |-> 0]}
      ELSE circles \cup lines \cup labels

MeasurementById(id) ==
  measurements[CHOOSE i \in 1..Len(measurements) : measurements[i].id = id]

\* isMeasurementNode(e.target).isMeasurement and className === 'Circle'
isMeasurementShape(e) == e.kind # "stage"
isEndpointCircle(e) == e.kind = "circle"

\* the document point a capturing handler takes from the event: the centre
\* of the circle that was hit, else the converted pointer position
EventPoint(e) ==
  IF isEndpointCircle(e) THEN MeasurementById(e.id).points[e.idx]
  ELSE getImageCoordinatesFromPointer(e.pointer)

(***************************************************************************)
(* Capture: tool changes, keys                                             *)
(***************************************************************************)
ClearDraft ==
  /\ currentPoints' = <<>>
  /\ activeMeasurementType' = "none"
  /\ previewPoint' = <<>>
  /\ UNCHANGED pendingPreview

\* finishMeasurement accepting a Surface of two points
finishMeasurementTwoPoints ==
  IF activeMeasurementType = "none" \/ Len(currentPoints) = 0
  THEN UNCHANGED <<captureVars, measurements, nextId>>
  ELSE IF activeMeasurementType = "length" /\ Len(currentPoints) >= 2
  THEN Emit("length", currentPoints) /\ ClearDraft
  ELSE IF activeMeasurementType = "area" /\ Len(currentPoints) >= 2
  THEN Emit("area", currentPoints) /\ ClearDraft
  ELSE UNCHANGED <<captureVars, measurements, nextId>>

finishMeasurement ==
  IF activeMeasurementType = "none" \/ Len(currentPoints) = 0
  THEN UNCHANGED <<captureVars, measurements, nextId>>
  ELSE IF activeMeasurementType = "length" /\ Len(currentPoints) >= 2
  THEN Emit("length", currentPoints) /\ ClearDraft
  ELSE IF activeMeasurementType = "area" /\ Len(currentPoints) >= 3
  THEN Emit("area", currentPoints) /\ ClearDraft
  ELSE UNCHANGED <<captureVars, measurements, nextId>>

\* a cancel that leaves the preview point in place
cancelMeasurementKeepingPreview ==
  IF activeMeasurementType # "none"
  THEN /\ currentPoints' = <<>>
       /\ activeMeasurementType' = "none"
       /\ UNCHANGED <<previewPoint, pendingPreview>>
  ELSE UNCHANGED captureVars

cancelMeasurement ==
  IF activeMeasurementType # "none" THEN ClearDraft ELSE UNCHANGED captureVars

\* the closing threshold taken in document units at every scale
isNearFirstPointUnscaled(point, firstPoint) ==
  isPointNear(point, firstPoint, R(CLOSE_POLYGON_THRESHOLD))

isNearFirstPoint(point, firstPoint) ==
  isPointNear(point, firstPoint, RDiv(R(CLOSE_POLYGON_THRESHOLD), scale))

\* a tool-change effect that keeps the pending calibration points
ToolChangeEffectKeepingCalibration(tool) ==
  /\ IF tool \notin {activeMeasurementType, "calibrate", "count", "select", "pan"}
     THEN cancelMeasurement
     ELSE UNCHANGED captureVars
  /\ UNCHANGED calibrationPoints
  /\ IF tool # "select"
     THEN /\ isSelecting' = FALSE
          /\ selectionStart' = <<>>
          /\ selectionRect' = <<>>
          /\ pendingSelectionRect' = <<>>
          /\ rectVisible' = FALSE
     ELSE UNCHANGED <<isSelecting, selectionStart, selectionRect,
                      pendingSelectionRect, rectVisible>>
  /\ IF tool # "pan" /\ isDragging
     THEN isDragging' = FALSE /\ mouseDownPos' = <<>>
     ELSE UNCHANGED <<isDragging, mouseDownPos>>

\* the effect that runs after a render with a new activeTool
ToolChangeEffect(tool) ==
  /\ IF tool \notin {activeMeasurementType, "calibrate", "count", "select", "pan"}
     THEN cancelMeasurement
     ELSE UNCHANGED captureVars
  /\ calibrationPoints' = IF tool # "calibrate" THEN <<>> ELSE calibrationPoints
  /\ IF tool # "select"
     THEN /\ isSelecting' = FALSE
          /\ selectionStart' = <<>>
          /\ selectionRect' = <<>>
          /\ pendingSelectionRect' = <<>>
          /\ rectVisible' = FALSE
     ELSE UNCHANGED <<isSelecting, selectionStart, selectionRect,
                      pendingSelectionRect, rectVisible>>
  /\ IF tool # "pan" /\ isDragging
     THEN isDragging' = FALSE /\ mouseDownPos' = <<>>
     ELSE UNCHANGED <<isDragging, mouseDownPos>>

\* setActiveTool of the page, followed by the tool-change effect
SetTool(tool) ==
  /\ phase = "idle"
  /\ tool # activeTool
  /\ activeTool' = tool
  /\ ToolChangeEffect(tool)
  /\ UNCHANGED <<viewVars, measurements, nextId, selectedMeasurementIds,
                 calibration, activePage, showCalibrationDialog,
                 calibrationDistance, calibrationUnits, justCompletedSelection,
                 dragStart, phase, evt, closure>>
  /\ lastEffect' = "none"

\* handleKeyDown, key Escape
KeyEscape ==
  /\ phase = "idle"
  /\ cancelMeasurement
  /\ selectedMeasurementIds' =
       IF activeMeasurementType = "none" THEN {} ELSE selectedMeasurementIds
  /\ lastEffect' = IF activeMeasurementType = "none" THEN "none"
                   ELSE IF previewPoint # <<>> THEN "escapedPreview"
                   ELSE "escaped"
  /\ UNCHANGED <<viewVars, activeTool, measurements, nextId, calibration,
                 activePage, promptVars, dragVars, phase, evt, closure>>

\* an Enter that discards a draft it cannot finalize
KeyEnterDiscarding ==
  /\ phase = "idle"
  /\ activeMeasurementType # "none"
  /\ IF \/ activeMeasurementType = "length" /\ Len(currentPoints) >= 2
        \/ activeMeasurementType = "area" /\ Len(currentPoints) >= 3
     THEN finishMeasurement
     ELSE ClearDraft /\ UNCHANGED <<measurements, nextId>>
  /\ lastEffect' = IF Len(measurements') > Len(measurements) THEN "entered"
                   ELSE "none"
  /\ UNCHANGED <<viewVars, activeTool, selectedMeasurementIds, calibration,
                 activePage, promptVars, dragVars, phase, evt, closure>>

\* handleKeyDown, key Enter
KeyEnter ==
  /\ phase = "idle"
  /\ activeMeasurementType # "none"
  /\ finishMeasurement
  /\ lastEffect' = IF Len(measurements') > Len(measurements) THEN "entered"
                   ELSE "none"
  /\ UNCHANGED <<viewVars, activeTool, selectedMeasurementIds, calibration,
                 activePage, promptVars, dragVars, phase, evt, closure>>

(***************************************************************************)
(* Pointer events on the stage                                             *)
(***************************************************************************)
\* a Count box that extends the whole COUNT_SIZE to each side
CountHalfSizeWhole == RDiv(R(COUNT_SIZE), scale)

\* CANVAS.COUNT_SIZE / 2 / scale
CountHalfSize == RDiv(RDiv(R(COUNT_SIZE), R(2)), scale)

\* getMeasurementsInRect: ids of the measurements of the active page the
\* rectangle touches
getMeasurementsInRect(rect) ==
  LET normalizedRect == Rect(RMin(rect.x, RAdd(rect.x, rect.width)),
                             RMin(rect.y, RAdd(rect.y, rect.height)),
                             RAbs(rect.width), RAbs(rect.height))
      half == CountHalfSize
      side == RDiv(R(COUNT_SIZE), scale)
      hit(m) ==
        CASE m.type = "length" ->
               \E i \in 1..(Len(m.points) - 1) :
                  \/ pointInRect(m.points[i], normalizedRect)
                  \/ pointInRect(m.points[i + 1], normalizedRect)
                  \/ lineIntersectsRect(m.points[i], m.points[i + 1], normalizedRect)
          [] m.type = "area" ->
               \/ \E i \in 1..Len(m.points) : pointInRect(m.points[i], normalizedRect)
               \/ rectsIntersect(getBoundingBox(m.points), normalizedRect)
          [] OTHER ->
               rectsIntersect(Rect(RSub(m.points[1].x, half),
                                   RSub(m.points[1].y, half), side, side),
                              normalizedRect)
  IN  {measurements[i].id : i \in {j \in PageMeasurements : hit(measurements[j])}}

\* handleStageMouseDown (left button)
MouseDown(pointer) ==
  /\ phase = "idle"
  /\ ~showCalibrationDialog
  /\ phase' = "down"
  /\ lastEffect' = "none"
  /\ \E target \in Targets(pointer) :
       /\ evt' = [pointer |-> pointer, kind |-> target.kind, id |-> target.id,
                  idx |-> target.idx, start |-> target, shiftKey |-> FALSE,
                  ctrlKey |-> FALSE, metaKey |-> FALSE, shown |-> FALSE,
                  hitTested |-> <<>>, far |-> FALSE]
       /\ IF activeTool = "select"
          THEN /\ IF target.kind = "stage"
                  THEN LET imagePos == getImageCoordinatesFromPointer(pointer)
                       IN  /\ isSelecting' = TRUE
                           /\ selectionStart' = <<imagePos>>
                           /\ selectionRect' =
                                <<Rect(imagePos.x, imagePos.y, RZero, RZero)>>
                           /\ pendingSelectionRect' = <<>>
                           /\ rectVisible' = FALSE
                  ELSE UNCHANGED <<isSelecting, selectionStart, selectionRect,
                                   pendingSelectionRect, rectVisible>>
               /\ UNCHANGED <<mouseDownPos, isDragging, dragStart>>
          ELSE /\ mouseDownPos' = <<pointer>>
               /\ IF activeTool = "pan"
                  THEN /\ isDragging' = TRUE
                       /\ dragStart' = <<Pt(RSub(R(pointer[1]), position.x),
                                            RSub(R(pointer[2]), position.y))>>
                  ELSE UNCHANGED <<isDragging, dragStart>>
               /\ UNCHANGED <<isSelecting, selectionStart, selectionRect,
                              pendingSelectionRect, rectVisible>>
  /\ UNCHANGED <<viewVars, pageVars, captureVars, promptVars,
                 justCompletedSelection, closure>>

\* a rectangle selection that replaces the selection whatever the Shift key
RectSelectionReplacing(currentSelection, selectedIds, shiftKey) == selectedIds

\* the selection a completed rectangle gives: the ids it hit, added to the
\* existing selection when Shift is held
RectSelection(currentSelection, selectedIds, shiftKey) ==
  IF shiftKey THEN currentSelection \cup selectedIds ELSE selectedIds

\* a completion that keeps the selection of before the drag
CompleteSelectionWithoutHitTest(shiftKey) ==
  /\ justCompletedSelection' = (rectVisible \/ justCompletedSelection)
  /\ isSelecting' = FALSE
  /\ selectionStart' = <<>>
  /\ selectionRect' = <<>>
  /\ mouseDownPos' = <<>>
  /\ pendingSelectionRect' = <<>>
  /\ rectVisible' = FALSE
  /\ UNCHANGED <<selectedMeasurementIds, isDragging, captureVars, measurements,
                 nextId, lastEffect>>

\* handleMouseUp, the branch that completes a rectangle selection
CompleteSelection(shiftKey) ==
  LET finalRect == IF pendingSelectionRect # <<>> THEN pendingSelectionRect
                   ELSE selectionRect
  IN  /\ IF finalRect # <<>> /\ rectVisible
         THEN /\ selectedMeasurementIds' =
                   RectSelection(selectedMeasurementIds,
                                 getMeasurementsInRect(finalRect[1]), shiftKey)
              /\ justCompletedSelection' = TRUE
         ELSE UNCHANGED <<selectedMeasurementIds, justCompletedSelection>>
      /\ isSelecting' = FALSE
      /\ selectionStart' = <<>>
      /\ selectionRect' = <<>>
      /\ mouseDownPos' = <<>>
      /\ pendingSelectionRect' = <<>>
      /\ rectVisible' = FALSE
      /\ UNCHANGED <<isDragging, captureVars, measurements, nextId, lastEffect>>

\* the new point put in front of the captured ones
PrependPoint(points, imagePos) == <<imagePos>> \o points

\* the latest preview position stored in place of the clicked point
AppendPreviewPoint(points, imagePos) ==
  Append(points, IF pendingPreview # <<>> THEN pendingPreview[1]
                 ELSE IF previewPoint # <<>> THEN previewPoint[1]
                 ELSE imagePos)

\* [...currentPoints, imagePos]
AppendPoint(points, imagePos) == Append(points, imagePos)

\* handleMouseUp, from the check of the active tool on
CaptureOnMouseUp ==
  LET imagePos == EventPoint(evt)
      onBody == isMeasurementShape(evt) /\ ~isEndpointCircle(evt)
      same == UNCHANGED <<captureVars, measurements, nextId, lastEffect>>
  IN  IF activeTool \in {"none", "select"} THEN same
      ELSE IF activeMeasurementType = "none" /\ activeTool \in {"length", "area"}
      THEN IF onBody THEN same
           ELSE /\ currentPoints' = <<imagePos>>
                /\ activeMeasurementType' = activeTool
                /\ UNCHANGED <<previewPoint, pendingPreview, measurements,
                               nextId, lastEffect>>
      ELSE IF activeMeasurementType = "none" THEN same
      ELSE IF onBody THEN same
      ELSE IF activeTool = "length" /\ activeMeasurementType = "length"
      THEN LET newPoints == AppendPoint(currentPoints, imagePos)
           IN  IF Len(newPoints) >= 2
               THEN Emit("length", newPoints) /\ ClearDraft
                    /\ lastEffect' = "finalized"
               ELSE /\ currentPoints' = newPoints
                    /\ UNCHANGED <<activeMeasurementType, previewPoint,
                                   pendingPreview, measurements, nextId,
                                   lastEffect>>
      ELSE IF activeTool = "area" /\ activeMeasurementType = "area"
      THEN IF Len(currentPoints) >= 3 /\ isNearFirstPoint(imagePos, currentPoints[1])
           THEN finishMeasurement /\ lastEffect' = "finalized"
           ELSE /\ Len(currentPoints) < MaxPoints
                /\ currentPoints' = AppendPoint(currentPoints, imagePos)
                /\ UNCHANGED <<activeMeasurementType, previewPoint,
                               pendingPreview, measurements, nextId,
                               lastEffect>>
      ELSE same

\* handleMouseUp (left button); the modifier keys are those of the mouseup
\* event, which the click event that follows it shares
MouseUp(shiftKey, ctrlKey, metaKey) ==
  /\ phase = "down"
  /\ phase' = "up"
  /\ evt' = [evt EXCEPT !.shiftKey = shiftKey, !.ctrlKey = ctrlKey,
                        !.metaKey = metaKey,
                        !.hitTested =
                           IF /\ activeTool = "select" /\ isSelecting
                              /\ selectionStart # <<>> /\ rectVisible
                           THEN IF pendingSelectionRect # <<>>
                                THEN pendingSelectionRect ELSE selectionRect
                           ELSE <<>>]
  /\ closure' = [activeMeasurementType |-> activeMeasurementType,
                 isSelecting |-> isSelecting,
                 hasSelectionRect |-> selectionRect # <<>>]
  /\ IF activeTool = "select" /\ isSelecting /\ selectionStart # <<>>
     THEN CompleteSelection(shiftKey)
     ELSE IF activeTool = "pan" /\ isDragging /\ activeMeasurementType = "none"
     THEN /\ isDragging' = FALSE
          /\ mouseDownPos' = <<>>
          /\ UNCHANGED <<captureVars, measurements, nextId, lastEffect,
                         selectedMeasurementIds, isSelecting, selectionStart,
                         selectionRect, pendingSelectionRect, rectVisible,
                         justCompletedSelection>>
     ELSE /\ isDragging' = IF activeTool = "pan" THEN FALSE ELSE isDragging
          /\ mouseDownPos' = <<>>
          /\ CaptureOnMouseUp
          /\ UNCHANGED <<selectedMeasurementIds, isSelecting, selectionStart,
                         selectionRect, pendingSelectionRect, rectVisible,
                         justCompletedSelection>>
  /\ UNCHANGED <<viewVars, activeTool, calibration, activePage, promptVars,
                 dragStart>>

\* handleClick of the stage, select tool
ClickSelect ==
  LET pending == closure.isSelecting \/ closure.hasSelectionRect
  IN  IF pending /\ rectVisible
      THEN UNCHANGED <<selectedMeasurementIds, isSelecting, selectionStart,
                       selectionRect, rectVisible>>
      ELSE /\ IF pending
              THEN /\ isSelecting' = FALSE
                   /\ selectionStart' = <<>>
                   /\ selectionRect' = <<>>
                   /\ rectVisible' = FALSE
              ELSE UNCHANGED <<isSelecting, selectionStart, selectionRect,
                               rectVisible>>
           /\ selectedMeasurementIds' =
                IF ~justCompletedSelection /\ ~evt.shiftKey THEN {}
                ELSE selectedMeasurementIds

\* the draft owner as the render following the mouseup would show it
CommittedMeasurementType == activeMeasurementType

\* activeMeasurementType as handleClick reads it.  Konva raises mouseup and
\* click from one DOM event and React applies the state updates of the
\* mouseup handler only after that event, so the click handler in place is
\* the one built by the render that preceded the mouseup.
ClickMeasurementType == closure.activeMeasurementType

\* handleClick of the stage, the other tools
ClickCapture ==
  LET imagePos == getImageCoordinatesFromPointer(evt.pointer)
      blocked == /\ ClickMeasurementType # "none"
                 /\ activeTool # ClickMeasurementType
                 /\ activeTool \notin {"count", "calibrate"}
      newPoints == Append(calibrationPoints, imagePos)
  IN  /\ IF activeTool = "calibrate" /\ ~blocked
         THEN /\ calibrationPoints' =
                   IF Len(newPoints) <= 2 THEN newPoints ELSE <<imagePos>>
              /\ showCalibrationDialog' =
                   IF Len(newPoints) = 2 THEN TRUE ELSE showCalibrationDialog
         ELSE UNCHANGED <<calibrationPoints, showCalibrationDialog>>
      /\ IF activeTool \in {"length", "area"} /\ ~blocked
            /\ ClickMeasurementType = "none"
         THEN /\ currentPoints' = <<imagePos>>
              /\ activeMeasurementType' = activeTool
              /\ UNCHANGED <<previewPoint, pendingPreview>>
         ELSE UNCHANGED captureVars
      /\ IF activeTool = "count" /\ ~blocked
         THEN EmitRecord(NewCount(imagePos))
         ELSE UNCHANGED <<measurements, nextId>>

\* handleClick of the stage: the click that follows the mouseup when the
\* pointer is on no measurement shape
Click ==
  /\ phase = "up"
  /\ evt.kind = "stage"
  /\ phase' = "idle"
  /\ evt' = NoEvt
  /\ closure' = NoClosure
  /\ IF activeTool = "select"
     THEN /\ ClickSelect
          /\ UNCHANGED <<captureVars, measurements, nextId, calibrationPoints,
                         showCalibrationDialog>>
     ELSE /\ ClickCapture
          /\ UNCHANGED <<selectedMeasurementIds, isSelecting, selectionStart,
                         selectionRect, rectVisible>>
  /\ UNCHANGED <<viewVars, activeTool, calibration, activePage,
                 calibrationDistance, calibrationUnits, pendingSelectionRect,
                 justCompletedSelection, isDragging, dragStart, mouseDownPos,
                 lastEffect>>

\* the node under the mouseup is the node the mousedown was on
SameNode(e) == e.start = [kind |-> e.kind, id |-> e.id, idx |-> e.idx]

\* a toggle that only ever adds the id
toggleSelectionAdding(currentSelection, measurementId) ==
  currentSelection \cup {measurementId}

toggleSelection(currentSelection, measurementId) ==
  IF measurementId \in currentSelection
  THEN currentSelection \ {measurementId}
  ELSE currentSelection \cup {measurementId}

updateSelectionWithModifiers(currentSelection, measurementId, shiftKey, ctrlKey, metaKey) ==
  IF shiftKey \/ ctrlKey \/ metaKey
  THEN toggleSelection(currentSelection, measurementId)
  ELSE {measurementId}

\* handleClick of a measurement's group: the click that follows the mouseup
\* when the pointer is on a measurement shape; it stops the click from
\* reaching the stage
ShapeClick ==
  /\ phase = "up"
  /\ evt.kind # "stage"
  /\ SameNode(evt)
  /\ phase' = "idle"
  /\ evt' = NoEvt
  /\ closure' = NoClosure
  /\ selectedMeasurementIds' =
       updateSelectionWithModifiers(selectedMeasurementIds, evt.id,
                                    evt.shiftKey, evt.ctrlKey, evt.metaKey)
  /\ lastEffect' =
       IF activeTool # "select" THEN lastEffect
       ELSE IF evt.shiftKey \/ evt.ctrlKey \/ evt.metaKey THEN "toggled"
       ELSE "picked"
  /\ UNCHANGED <<viewVars, activeTool, measurements, nextId, calibration,
                 activePage, captureVars, promptVars, dragVars>>

\* a mouseup on a measurement shape other than the node the mousedown was on:
\* no click event follows
NoClick ==
  /\ phase = "up"
  /\ evt.kind # "stage"
  /\ ~SameNode(evt)
  /\ phase' = "idle"
  /\ evt' = NoEvt
  /\ closure' = NoClosure
  /\ UNCHANGED <<viewVars, pageVars, captureVars, promptVars, dragVars,
                 lastEffect>>

\* distance > CANVAS.DRAG_THRESHOLD, the distance taken in document units
\* from the start of the rectangle; compared by the squares
shouldShow(imagePos, start) ==
  RLt(R(DRAG_THRESHOLD * DRAG_THRESHOLD), DistSq(imagePos, start))

\* handleMouseMove; while a button is down the move also changes the node
\* the coming mouseup will find under the pointer
MouseMove(pointer) ==
  LET imagePos == getImageCoordinatesFromPointer(pointer)
      panning == activeTool = "pan" /\ isDragging
      selecting == ~panning /\ activeTool = "select" /\ isSelecting
                   /\ selectionStart # <<>>
      show == selecting /\ shouldShow(imagePos, selectionStart[1])
      beyond == /\ mouseDownPos # <<>>
                /\ (pointer[1] - mouseDownPos[1][1]) * (pointer[1] - mouseDownPos[1][1])
                   + (pointer[2] - mouseDownPos[1][2]) * (pointer[2] - mouseDownPos[1][2])
                   > DRAG_THRESHOLD * DRAG_THRESHOLD
  IN  /\ phase \in {"idle", "down"}
      /\ ~showCalibrationDialog
      /\ IF phase = "down"
         THEN \E target \in Targets(pointer) :
                evt' = [evt EXCEPT !.pointer = pointer, !.kind = target.kind,
                                   !.id = target.id, !.idx = target.idx,
                                   !.shown = evt.shown \/ show,
                                   !.far = evt.far \/ beyond]
         ELSE evt' = evt
      /\ IF panning
         THEN /\ position' = Pt(RSub(R(pointer[1]), dragStart[1].x),
                                RSub(R(pointer[2]), dragStart[1].y))
              /\ UNCHANGED <<pendingSelectionRect, rectVisible, isDragging,
                             dragStart, previewPoint, pendingPreview>>
         ELSE IF selecting
         THEN /\ pendingSelectionRect' =
                   <<Rect(RMin(selectionStart[1].x, imagePos.x),
                          RMin(selectionStart[1].y, imagePos.y),
                          RAbs(RSub(imagePos.x, selectionStart[1].x)),
                          RAbs(RSub(imagePos.y, selectionStart[1].y)))>>
              /\ rectVisible' = show
              /\ UNCHANGED <<position, isDragging, dragStart, previewPoint,
                             pendingPreview>>
         ELSE /\ IF /\ activeTool = "pan" /\ mouseDownPos # <<>> /\ ~isDragging
                    /\ (pointer[1] - mouseDownPos[1][1]) * (pointer[1] - mouseDownPos[1][1])
                       + (pointer[2] - mouseDownPos[1][2]) * (pointer[2] - mouseDownPos[1][2])
                       > PAN_DRAG_THRESHOLD * PAN_DRAG_THRESHOLD
                 THEN /\ isDragging' = TRUE
                      /\ dragStart' = <<Pt(RSub(R(pointer[1]), position.x),
                                           RSub(R(pointer[2]), position.y))>>
                 ELSE UNCHANGED <<isDragging, dragStart>>
              /\ IF activeMeasurementType \in {"length", "area"}
                 THEN pendingPreview' = <<imagePos>> /\ UNCHANGED previewPoint
                 ELSE previewPoint' = <<>> /\ UNCHANGED pendingPreview
              /\ UNCHANGED <<position, pendingSelectionRect, rectVisible>>
      /\ UNCHANGED <<scale, imageSize, stageSize, wheelCount, sideVars,
                     pageVars,
                     activeMeasurementType, currentPoints, promptVars,
                     isSelecting, selectionStart, selectionRect,
                     justCompletedSelection, mouseDownPos, phase, closure,
                     lastEffect>>

\* the rendering frame after a throttled preview update: setPreviewPoint
\* with the latest position handed to updatePreviewPointThrottled
PreviewFrame ==
  /\ pendingPreview # <<>>
  /\ phase # "up"
  /\ previewPoint' = pendingPreview
  /\ pendingPreview' = <<>>
  /\ UNCHANGED <<viewVars, pageVars, activeMeasurementType, currentPoints,
                 promptVars, dragVars, clickVars>>

\* a timer that could expire between the mouseup and its click
SelectionTimerBeforeClick ==
  /\ justCompletedSelection
  /\ justCompletedSelection' = FALSE
  /\ UNCHANGED <<viewVars, pageVars, captureVars, promptVars, isSelecting,
                 selectionStart, selectionRect, pendingSelectionRect,
                 rectVisible, isDragging, dragStart, mouseDownPos, clickVars>>

\* the timer started by a completed rectangle selection, 100 ms later; the
\* mouseup and its click are raised from one DOM event, so the timer cannot
\* expire between them
SelectionTimer ==
  /\ justCompletedSelection
  /\ phase # "up"
  /\ justCompletedSelection' = FALSE
  /\ UNCHANGED <<viewVars, pageVars, captureVars, promptVars, isSelecting,
                 selectionStart, selectionRect, pendingSelectionRect,
                 rectVisible, isDragging, dragStart, mouseDownPos, clickVars>>

(***************************************************************************)
(* Calibration prompt                                                      *)
(***************************************************************************)
\* parseFloat on the texts of DistanceInputs; <<>> is NaN
ParseFloat(text) ==
  CASE text = "0" -> <<R(0)>>
    [] text = "-3" -> <<R(-3)>>
    [] text = "5" -> <<R(5)>>
    [] OTHER -> <<>>

\* onChange of the distance field
TypeDistance(text) ==
  /\ phase = "idle"
  /\ showCalibrationDialog
  /\ calibrationDistance' = text
  /\ lastEffect' = "none"
  /\ UNCHANGED <<viewVars, pageVars, captureVars, calibrationPoints,
                 showCalibrationDialog, calibrationUnits, dragVars, phase, evt,
                 closure>>

\* onChange of the unit list
SelectUnits(units) ==
  /\ phase = "idle"
  /\ showCalibrationDialog
  /\ calibrationUnits' = units
  /\ lastEffect' = "none"
  /\ UNCHANGED <<viewVars, pageVars, captureVars, calibrationPoints,
                 showCalibrationDialog, calibrationDistance, dragVars, phase, evt,
                 closure>>

\* a check that lets the distance 0 through
ValidDistanceNonNegative(realDistance) ==
  realDistance # <<>> /\ RLe(RZero, realDistance[1])

\* !isNaN(realDistance) && realDistance > 0
ValidDistance(realDistance) ==
  realDistance # <<>> /\ RLt(RZero, realDistance[1])

\* the record with the squared distance in place of the distance
NewCalibrationSquared(points, realDistance, units) ==
  [pixelDistance |-> DistSq(points[1], points[2]),
   realDistance |-> realDistance,
   units |-> units,
   isCalibrated |-> TRUE]

\* the record handleCalibrationSubmit builds
NewCalibration(points, realDistance, units) ==
  [pixelDistance |-> Sqrt(DistSq(points[1], points[2])),
   realDistance |-> realDistance,
   units |-> units,
   isCalibrated |-> TRUE]

\* handleCalibrationSubmit; on success handleCalibrationUpdate of the page
\* stores the record and sets the active tool to null
handleCalibrationSubmit ==
  /\ phase = "idle"
  /\ showCalibrationDialog
  /\ LET realDistance == ParseFloat(calibrationDistance)
     IN  IF /\ Len(calibrationPoints) = 2
            /\ calibrationDistance # ""
            /\ ValidDistance(realDistance)
         THEN /\ calibration' = <<NewCalibration(calibrationPoints,
                                                 realDistance[1], calibrationUnits)>>
              /\ activeTool' = "none"
              /\ ToolChangeEffect("none")
              /\ showCalibrationDialog' = FALSE
              /\ calibrationDistance' = ""
              /\ lastEffect' = "committed"
         ELSE /\ lastEffect' = "rejected"
              /\ UNCHANGED <<calibration, activeTool, captureVars,
                             calibrationPoints, showCalibrationDialog,
                             calibrationDistance, isSelecting, selectionStart,
                             selectionRect, pendingSelectionRect, rectVisible,
                             isDragging, mouseDownPos>>
  /\ UNCHANGED <<viewVars, measurements, nextId, selectedMeasurementIds,
                 activePage, calibrationUnits, justCompletedSelection,
                 dragStart, phase, evt, closure>>

\* a Cancel that closes the prompt and keeps the captured points
CalibrationCancelKeepingPoints ==
  /\ phase = "idle"
  /\ showCalibrationDialog
  /\ showCalibrationDialog' = FALSE
  /\ calibrationDistance' = ""
  /\ lastEffect' = "cancelled"
  /\ UNCHANGED <<viewVars, pageVars, captureVars, calibrationPoints,
                 calibrationUnits, dragVars, phase, evt, closure>>

\* onClick of the Cancel button of the prompt
CalibrationCancel ==
  /\ phase = "idle"
  /\ showCalibrationDialog
  /\ showCalibrationDialog' = FALSE
  /\ calibrationPoints' = <<>>
  /\ calibrationDistance' = ""
  /\ lastEffect' = "cancelled"
  /\ UNCHANGED <<viewVars, pageVars, captureVars, calibrationUnits, dragVars,
                 phase, evt, closure>>

(***************************************************************************)
(* Specifications                                                          *)
(***************************************************************************)
\* tools offered while capture is exercised
CaptureTools == Tools \ {"calibrate"}

\* the capture engine: tools, clicks and keys on a fixed viewport
Next ==
  \/ \E tool \in CaptureTools : SetTool(tool)
  \/ \E pointer \in Pointers : MouseDown(pointer)
  \/ MouseUp(FALSE, FALSE, FALSE)
  \/ Click
  \/ ShapeClick
  \/ KeyEscape
  \/ KeyEnter

Spec == Init /\ [][Next]_vars

\* tools offered while the calibration protocol is exercised
CalibrationTools == {"none", "calibrate", "length"}

\* the calibration protocol
NextCalibration ==
  \/ \E tool \in CalibrationTools : SetTool(tool)
  \/ \E pointer \in Pointers : MouseDown(pointer)
  \/ MouseUp(FALSE, FALSE, FALSE)
  \/ Click
  \/ ShapeClick
  \/ \E text \in DistanceInputs : TypeDistance(text)
  \/ \E units \in Units : SelectUnits(units)
  \/ handleCalibrationSubmit
  \/ CalibrationCancel

SpecCalibration == Init /\ [][NextCalibration]_vars

\* tools offered while the preview is exercised
PreviewTools == {"length", "area"}

\* pointer positions while the preview is exercised
PreviewPointers == {<<0, 0>>, <<16, 0>>}

\* drafts with a moving pointer: clicks, moves, frames and Escape
NextPreview ==
  \/ \E tool \in PreviewTools : SetTool(tool)
  \/ \E pointer \in PreviewPointers : MouseDown(pointer)
  \/ \E pointer \in PreviewPointers : MouseMove(pointer)
  \/ MouseUp(FALSE, FALSE, FALSE)
  \/ Click
  \/ ShapeClick
  \/ NoClick
  \/ PreviewFrame
  \/ KeyEscape

SpecPreview == Init /\ [][NextPreview]_vars

\* pointer positions of the selection gestures: on the first Count, within
\* and beyond the drag threshold of an empty position, on the second Count
SelectPointers == {<<0, 0>>, <<6, 0>>, <<12, 0>>, <<28, 0>>, <<40, 0>>}

\* shiftKey, ctrlKey and metaKey of a mouseup
Modifiers == {<<FALSE, FALSE, FALSE>>, <<TRUE, FALSE, FALSE>>,
              <<FALSE, TRUE, FALSE>>, <<FALSE, FALSE, TRUE>>}

\* a Count as handleClick adds it to the list
PlacedCount(id, pointer) ==
  [id |-> id, type |-> "count", value |-> Num(R(1)), name |-> <<"Count", id>>,
   units |-> "ft", points |-> <<getImageCoordinatesFromPointer(pointer)>>,
   pageNumber |-> 1, category |-> "", notes |-> "", groupId |-> ""]

\* the page after two Counts were placed with the Count tool and the select
\* tool was chosen
InitSelect ==
  /\ InitView
  /\ activeTool = "select"
  /\ measurements = <<PlacedCount(1, <<0, 0>>), PlacedCount(2, <<40, 0>>)>>
  /\ nextId = 3
  /\ selectedMeasurementIds = {}
  /\ calibration = <<>>
  /\ activePage = 1
  /\ activeMeasurementType = "none"
  /\ currentPoints = <<>>
  /\ previewPoint = <<>>
  /\ pendingPreview = <<>>
  /\ calibrationPoints = <<>>
  /\ showCalibrationDialog = FALSE
  /\ calibrationDistance = ""
  /\ calibrationUnits = "ft"
  /\ isSelecting = FALSE
  /\ selectionStart = <<>>
  /\ selectionRect = <<>>
  /\ pendingSelectionRect = <<>>
  /\ rectVisible = FALSE
  /\ justCompletedSelection = FALSE
  /\ isDragging = FALSE
  /\ dragStart = <<>>
  /\ mouseDownPos = <<>>
  /\ phase = "idle"
  /\ evt = NoEvt
  /\ closure = NoClosure
  /\ lastEffect = "none"

\* selection gestures with the select tool
NextSelect ==
  \/ \E pointer \in SelectPointers : MouseDown(pointer)
  \/ \E pointer \in SelectPointers : MouseMove(pointer)
  \/ \E keys \in Modifiers : MouseUp(keys[1], keys[2], keys[3])
  \/ Click
  \/ ShapeClick
  \/ NoClick
  \/ SelectionTimer

SpecSelect == InitSelect /\ [][NextSelect]_vars

(***************************************************************************)
(* Capture properties (Spec)                                               *)
(***************************************************************************)
IsMouseUp == phase = "down" /\ phase' = "up"
IsClick == phase = "up" /\ phase' = "idle"
LastEmitted == measurements'[Len(measurements')]
EmitsOne(type, points) ==
  /\ Len(measurements') = Len(measurements) + 1
  /\ SubSeq(measurements', 1, Len(measurements)) = measurements
  /\ LastEmitted.type = type
  /\ LastEmitted.points = points
NoDraftAfter == currentPoints' = <<>> /\ activeMeasurementType' = "none"

DraftDiscardedOnToolChange ==
  [][/\ activeTool' # activeTool
     /\ activeMeasurementType # "none"
     /\ activeTool' # activeMeasurementType
     => NoDraftAfter]_vars

GeometryInvariant ==
  \A i \in 1..Len(measurements) :
     LET m == measurements[i]
     IN  /\ m.type = "length" => Len(m.points) >= 2
         /\ m.type = "area" => Len(m.points) >= 3
         /\ m.type = "count" => Len(m.points) = 1

\* C3: every emitted measurement satisfies the geometry invariant of its
\* type (Linear at least 2 points, Surface at least 3, Count exactly 1), and
\* a click that closes a Surface emits the points captured before it, the
\* closing click itself not being stored.
EmittedGeometryValid ==
  /\ []GeometryInvariant
  /\ [][IsMouseUp /\ Len(measurements') > Len(measurements)
          /\ LastEmitted.type = "area"
        => LastEmitted.points = currentPoints]_vars

\* the mouseup of a closing click has emitted a Surface
SurfaceClosedByClick ==
  /\ phase = "up"
  /\ lastEffect = "finalized"
  /\ measurements # <<>>
  /\ measurements[Len(measurements)].type = "area"

WithinCloseThreshold(p) ==
  RLe(DistSq(p, currentPoints[1]),
      RMul(RDiv(R(CLOSE_POLYGON_THRESHOLD), scale),
           RDiv(R(CLOSE_POLYGON_THRESHOLD), scale)))

DraftDestroyedOnFinalize ==
  /\ [](lastEffect = "finalized" /\ phase = "idle" =>
          currentPoints = <<>> /\ activeMeasurementType = "none")
  /\ [][phase = "idle" /\ phase' = "idle" /\ activeMeasurementType = "none"
        => NoDraftAfter]_vars

\* both handlers of a finalizing canvas click have run
FinalizingClickHandled ==
  /\ lastEffect = "finalized"
  /\ phase = "idle"
  /\ measurements # <<>>

(***************************************************************************)
(* Calibration properties (SpecCalibration)                                *)
(***************************************************************************)
\* C6: every committed calibration record with isCalibrated has
\* pixelDistance > 0 and realDistance > 0.
CalibrationPositive ==
  calibration # <<>> /\ calibration[1].isCalibrated =>
    /\ RLt(RZero, calibration[1].pixelDistance)
    /\ RLt(RZero, calibration[1].realDistance)

\* C9: with the calibration tool active each of the two clicks stores its
\* document point, the second opens the prompt, and a confirmation with a
\* positive distance (the text "5") replaces the calibration by the record
\* of the Euclidean distance of the two points, the entered value and the
\* chosen unit, clears the points, closes the prompt and leaves the
\* calibration tool.
CalibrationCommitted ==
  [][/\ IsClick /\ evt.kind = "stage" /\ activeTool = "calibrate"
          /\ Len(calibrationPoints) < 2 =>
          /\ calibrationPoints' =
               Append(calibrationPoints, getImageCoordinatesFromPointer(evt.pointer))
          /\ showCalibrationDialog' = (Len(calibrationPoints) = 1)
     /\ handleCalibrationSubmit /\ Len(calibrationPoints) = 2
          /\ calibrationDistance = "5" =>
          /\ calibration' # <<>>
          /\ LET c == calibration'[1]
             IN  /\ RLe(RZero, c.pixelDistance)
                 /\ RMul(c.pixelDistance, c.pixelDistance) =
                      DistSq(calibrationPoints[1], calibrationPoints[2])
                 /\ c.realDistance = R(5)
                 /\ c.units = calibrationUnits
                 /\ c.isCalibrated
          /\ calibrationPoints' = <<>>
          /\ ~showCalibrationDialog'
          /\ activeTool' # "calibrate"]_vars

\* a calibration over two different points has been committed
CalibrationCommitReached ==
  /\ lastEffect = "committed"
  /\ calibration # <<>>
  /\ RLt(RZero, calibration[1].pixelDistance)
  /\ activeTool = "none"
  /\ ~showCalibrationDialog

\* C10: Cancel of the prompt discards the captured points and closes the
\* prompt, and neither it nor any step of the protocol short of a commit
\* changes the calibration record.
CalibrationCancelKeepsRecord ==
  [][/\ CalibrationCancel =>
          /\ calibrationPoints' = <<>>
          /\ ~showCalibrationDialog'
          /\ calibration' = calibration
     /\ lastEffect' # "committed" => calibration' = calibration]_vars

\* a prompt was cancelled while a calibration record existed
CancelWithExistingRecord ==
  /\ lastEffect = "cancelled"
  /\ calibration # <<>>
  /\ calibrationPoints = <<>>
  /\ ~showCalibrationDialog

(***************************************************************************)
(* Viewport properties (SpecView)                                          *)
(***************************************************************************)
\* C7: in every reachable state the zoom factor lies between MIN_SCALE and
\* MAX_SCALE, after the load of an image of any size, after every wheel
\* step and after every fit-to-view.
ScaleWithinBounds == RLe(MIN_SCALE, scale) /\ RLe(scale, MAX_SCALE)

\* C8: every wheel step, clamped or not, leaves the document point under
\* the pointer where it was: converting the pointer position with the
\* viewport after the step gives the point it gave before the step.
ZoomAnchorPreserved ==
  [][\A pointer \in Pointers, zoomOut \in BOOLEAN :
       handleWheel(pointer, zoomOut) =>
         pointerToImageCoordinates(pointer, position', scale',
             calculateImageOffset(stageSize', imageSize', scale'))
           = getImageCoordinatesFromPointer(pointer)]_vars

\* a wheel step that moved the stage and ended on a bound of the scale
ZoomStepClamped ==
  /\ wheelCount > 0
  /\ position # Pt(RZero, RZero)
  /\ scale \in {MIN_SCALE, MAX_SCALE}

(***************************************************************************)
(* Calibration prompt: rejection and tool switch (SpecCalibration)         *)
(***************************************************************************)
\* C11: confirming the prompt with an empty, zero or negative distance (a
\* number field gives the empty text for anything non-numeric) commits
\* nothing: the calibration, the pending points, the open prompt and the
\* active tool are unchanged.
CalibrationRejectKeepsState ==
  [][handleCalibrationSubmit /\ calibrationDistance \in {"", "0", "-3"} =>
       UNCHANGED <<calibration, calibrationPoints, showCalibrationDialog,
                   activeTool>>]_vars

\* a negative distance was confirmed with two points pending
RejectedNegativeDistance ==
  /\ lastEffect = "rejected"
  /\ calibrationDistance = "-3"
  /\ Len(calibrationPoints) = 2
  /\ showCalibrationDialog

\* C12: a change of the active tool away from calibration discards the
\* pending calibration points, no point is pending while another tool is
\* active, and a record is committed only from two points captured while
\* the calibration tool has been active without interruption.
CalibrationPointsDiscardedOnSwitch ==
  /\ [](activeTool # "calibrate" => calibrationPoints = <<>>)
  /\ [][/\ activeTool = "calibrate" /\ activeTool' # "calibrate" =>
            calibrationPoints' = <<>>
        /\ lastEffect' = "committed" /\ handleCalibrationSubmit =>
            activeTool = "calibrate" /\ Len(calibrationPoints) = 2]_vars

\* the tool was switched away with two points pending and the prompt open
SwitchedWithPromptOpen ==
  /\ activeTool = "length"
  /\ showCalibrationDialog
  /\ calibrationPoints = <<>>
  /\ calibration = <<>>

(***************************************************************************)
(* Tool exclusivity, keys and Count (Spec)                                 *)
(***************************************************************************)
\* C13: every Linear or Surface is emitted in a state where the active
\* tool is the tool of its type; no click and no Enter finalizes a draft
\* owned by another tool.
ToolExclusivity ==
  [][Len(measurements') > Len(measurements)
       /\ LastEmitted.type \in {"length", "area"}
     => activeTool = LastEmitted.type]_vars

\* C14: Enter on a Surface draft of at least 3 points emits one Surface
\* holding exactly the draft's points, wherever the last point lies, and
\* closes the draft; on a Surface draft of fewer than 3 points or a Linear
\* draft of fewer than 2 points it emits nothing and leaves the draft as it
\* is.
EnterFinalizesSurface ==
  [][KeyEnter =>
       /\ activeMeasurementType = "area" /\ Len(currentPoints) >= 3 =>
            EmitsOne("area", currentPoints) /\ NoDraftAfter
       /\ \/ activeMeasurementType = "area" /\ Len(currentPoints) < 3
          \/ activeMeasurementType = "length" /\ Len(currentPoints) < 2
          => UNCHANGED <<captureVars, measurements>>]_vars

\* Enter has emitted a Surface whose last point is not within the closing
\* threshold of its first point
SurfaceEnteredFarFromFirst ==
  /\ lastEffect = "entered"
  /\ measurements # <<>>
  /\ LET m == measurements[Len(measurements)]
     IN  /\ m.type = "area"
         /\ ~isPointNear(m.points[Len(m.points)], m.points[1],
                         RDiv(R(CLOSE_POLYGON_THRESHOLD), scale))

\* C16: with the Count tool active, a click on the empty canvas emits
\* exactly one Count of value 1 whose point is the document point of the
\* click and whose page is the active page: the mouseup handler emits
\* nothing, the click handler emits the Count, and neither touches a draft.
CountFromOneClick ==
  [][activeTool = "count" /\ evt.kind = "stage" =>
       /\ IsMouseUp => UNCHANGED <<captureVars, measurements>>
       /\ IsClick =>
            /\ EmitsOne("count", <<pointerToImageCoordinates(evt.pointer, position,
                     scale, calculateImageOffset(stageSize, imageSize, scale))>>)
            /\ LastEmitted.value = Num(R(1))
            /\ LastEmitted.pageNumber = activePage
            /\ UNCHANGED captureVars]_vars

\* a Count has been emitted by a click away from the first pointer position
CountEmitted ==
  /\ phase = "idle"
  /\ activeTool = "count"
  /\ measurements # <<>>
  /\ measurements[1].type = "count"
  /\ measurements[1].points[1].x # RZero

(***************************************************************************)
(* Escape with a preview (SpecPreview)                                     *)
(***************************************************************************)
\* C15: Escape while a Linear or Surface draft is open discards the draft:
\* the captured points and the preview point are cleared, no tool owns a
\* draft, and the list of measurements is unchanged.
EscapeDiscardsDraft ==
  [][KeyEscape /\ activeMeasurementType \in {"length", "area"} =>
       /\ currentPoints' = <<>>
       /\ previewPoint' = <<>>
       /\ activeMeasurementType' = "none"
       /\ measurements' = measurements]_vars

\* Escape has discarded a draft whose preview point was on screen
EscapedToIdle ==
  /\ lastEffect = "escapedPreview"
  /\ currentPoints = <<>>
  /\ previewPoint = <<>>
  /\ activeMeasurementType = "none"

(***************************************************************************)
(* Selection (SpecSelect)                                                  *)
(***************************************************************************)
\* the rectangle handleMouseUp hit-tests
FinalRect ==
  IF pendingSelectionRect # <<>> THEN pendingSelectionRect[1] ELSE selectionRect[1]

\* a mouseup that ends a gesture started on the empty stage in select mode
EndsSelectGesture ==
  IsMouseUp /\ activeTool = "select" /\ isSelecting /\ selectionStart # <<>>

\* C17: when a rectangle drag whose rectangle is shown ends, the selection
\* becomes the union of the previous selection and the hit set if Shift is
\* held at the mouseup, and exactly the hit set otherwise; the click event
\* of the same gesture leaves that selection as it is.
RectangleUnionOrReplace ==
  [][/\ EndsSelectGesture /\ rectVisible =>
          selectedMeasurementIds' =
            IF evt'.shiftKey
            THEN selectedMeasurementIds \cup getMeasurementsInRect(FinalRect)
            ELSE getMeasurementsInRect(FinalRect)
     /\ IsClick /\ activeTool = "select" /\ evt.start.kind = "stage"
          /\ justCompletedSelection =>
          selectedMeasurementIds' = selectedMeasurementIds]_vars

\* a rectangle ended with Shift held has kept a selected measurement it did
\* not hit and added one it hit
RectangleUnionReached ==
  /\ phase = "up"
  /\ justCompletedSelection
  /\ evt.shiftKey
  /\ selectedMeasurementIds = {1, 2}

\* C18: a direct click on measurement m in select mode sets the selection
\* to {m} when no modifier is held; with Shift, Ctrl or Cmd it flips the
\* membership of m and of no other id.
DirectClickSelection ==
  [][ShapeClick /\ activeTool = "select" =>
       selectedMeasurementIds' =
         IF evt.shiftKey \/ evt.ctrlKey \/ evt.metaKey
         THEN IF evt.id \in selectedMeasurementIds
              THEN selectedMeasurementIds \ {evt.id}
              ELSE selectedMeasurementIds \cup {evt.id}
         ELSE {evt.id}]_vars

\* a click with a modifier has taken the only selected measurement out of
\* the selection
ToggledOut ==
  /\ lastEffect = "toggled"
  /\ activeTool = "select"
  /\ selectedMeasurementIds = {}

\* the pointer of the gesture in progress is within DRAG_THRESHOLD document
\* units of the point the gesture started at
WithinDragThreshold ==
  RLe(DistSq(getImageCoordinatesFromPointer(evt.pointer), selectionStart[1]),
      R(DRAG_THRESHOLD * DRAG_THRESHOLD))

\* C19: in select mode a gesture on empty space whose movement stays below
\* DRAG_THRESHOLD never makes the selection rectangle visible, and its click
\* leaves the selection empty if Shift is not held and as it was if Shift is
\* held.
ClickWithoutDrag ==
  /\ [](phase = "down" /\ activeTool = "select" /\ isSelecting
          /\ selectionStart # <<>> /\ WithinDragThreshold => ~rectVisible)
  /\ [][IsClick /\ activeTool = "select" /\ evt.start.kind = "stage"
          /\ evt.kind = "stage" /\ ~evt.shown =>
          selectedMeasurementIds' =
            IF evt.shiftKey THEN selectedMeasurementIds ELSE {}]_vars

\* C20: if the selection rectangle was shown at any moment of a drag, the
\* mouseup hit-tests the measurements of the active page against the final
\* rectangle and sets the selection from the result, wherever the pointer
\* is at the mouseup; only a gesture whose rectangle was never shown is
\* left to the click.
ShownRectangleHitTested ==
  [][EndsSelectGesture =>
       IF evt.shown
       THEN selectedMeasurementIds' =
              RectSelection(selectedMeasurementIds,
                            getMeasurementsInRect(FinalRect), evt'.shiftKey)
       ELSE selectedMeasurementIds' = selectedMeasurementIds]_vars

GeometryFromClicksOnly ==
  [][/\ currentPoints' # currentPoints /\ currentPoints' # <<>> =>
          /\ phase \in {"down", "up"}
          /\ currentPoints' \in {<<EventPoint(evt)>>,
                                 Append(currentPoints, EventPoint(evt))}
     /\ Len(measurements') > Len(measurements) /\ phase \in {"down", "up"} =>
          LastEmitted.points \in {currentPoints, <<EventPoint(evt)>>,
                                  Append(currentPoints, EventPoint(evt))}
     /\ Len(measurements') > Len(measurements) /\ phase = "idle" =>
          LastEmitted.points = currentPoints
     /\ (previewPoint' # previewPoint \/ pendingPreview' # pendingPreview)
          /\ phase' = phase =>
          /\ measurements' = measurements
          /\ currentPoints' \in {currentPoints, <<>>}]_vars

\* a Linear was finalized by a click while the pending preview position was
\* a point that is none of its points
FinalizedAwayFromPreview ==
  /\ lastEffect = "finalized"
  /\ Len(measurements) = 1
  /\ measurements[1].type = "length"
  /\ pendingPreview # <<>>
  /\ \A i \in 1..Len(measurements[1].points) :
        measurements[1].points[i] # pendingPreview[1]

(***************************************************************************)
(* Pan (SpecPan)                                                           *)
(***************************************************************************)
\* pointer positions of the pan gestures: 4 and 16 device pixels apart
PanPointers == {<<0, 0>>, <<4, 0>>, <<16, 0>>}
\* the pan offset explored, in device pixels to either side
MaxPan == 16

NextPan ==
  \/ SetTool("pan")
  \/ \E pointer \in PanPointers : MouseDown(pointer)
  \/ \E pointer \in PanPointers :
       /\ MouseMove(pointer)
       /\ RLe(RAbs(position'.x), R(MaxPan))
  \/ MouseUp(FALSE, FALSE, FALSE)
  \/ Click

SpecPan == Init /\ [][NextPan]_vars

\* C25: with the pan tool, as long as the pointer has never been more than
\* DRAG_THRESHOLD device pixels away from the position of the mousedown, a
\* pointer move leaves the pan offset unchanged.
PanWaitsForThreshold ==
  [][/\ activeTool = "pan"
     /\ phase = "down" /\ phase' = "down"
     /\ mouseDownPos # <<>>
     /\ ~evt'.far
     => position' = position]_vars

(***************************************************************************)
(* Pages (SpecPages)                                                       *)
(***************************************************************************)
\* pdfPageCount of the document
MaxPages == 2

\* the previous / next page buttons; the page image is loaded afterwards
PageChange(next) ==
  /\ phase = "idle"
  /\ activePage' = IF next
                   THEN IF activePage + 1 < MaxPages THEN activePage + 1 ELSE MaxPages
                   ELSE IF activePage - 1 > 1 THEN activePage - 1 ELSE 1
  /\ lastEffect' = "none"
  /\ UNCHANGED <<viewVars, activeTool, measurements, nextId,
                 selectedMeasurementIds, calibration, captureVars, promptVars,
                 dragVars, phase, evt, closure>>

\* handleKeyDown, Ctrl/Cmd+A
KeySelectAll ==
  /\ phase = "idle"
  /\ selectedMeasurementIds' =
       IF activeTool = "select"
       THEN {measurements[i].id : i \in PageMeasurements}
       ELSE selectedMeasurementIds
  /\ lastEffect' = IF activeTool = "select" THEN "selectedAll" ELSE "none"
  /\ UNCHANGED <<viewVars, activeTool, measurements, nextId, calibration,
                 activePage, captureVars, promptVars, dragVars, phase, evt,
                 closure>>

PagePointers == {<<0, 0>>, <<12, 0>>, <<40, 0>>}

PlacedCountOnPage(id, pointer, page) ==
  [PlacedCount(id, pointer) EXCEPT !.pageNumber = page]

\* Counts were placed at the same spot of page 1 and of page 2 and at the
\* right edge of page 2, then the select tool was chosen on page 1
InitPages ==
  /\ InitView
  /\ activeTool = "select"
  /\ measurements = <<PlacedCountOnPage(1, <<0, 0>>, 1),
                      PlacedCountOnPage(2, <<0, 0>>, 2),
                      PlacedCountOnPage(3, <<40, 0>>, 2)>>
  /\ nextId = 4
  /\ selectedMeasurementIds = {}
  /\ calibration = <<>>
  /\ activePage = 1
  /\ activeMeasurementType = "none"
  /\ currentPoints = <<>>
  /\ previewPoint = <<>>
  /\ pendingPreview = <<>>
  /\ calibrationPoints = <<>>
  /\ showCalibrationDialog = FALSE
  /\ calibrationDistance = ""
  /\ calibrationUnits = "ft"
  /\ isSelecting = FALSE
  /\ selectionStart = <<>>
  /\ selectionRect = <<>>
  /\ pendingSelectionRect = <<>>
  /\ rectVisible = FALSE
  /\ justCompletedSelection = FALSE
  /\ isDragging = FALSE
  /\ dragStart = <<>>
  /\ mouseDownPos = <<>>
  /\ phase = "idle"
  /\ evt = NoEvt
  /\ closure = NoClosure
  /\ lastEffect = "none"

NextPages ==
  \/ \E next \in BOOLEAN : PageChange(next)
  \/ KeySelectAll
  \/ \E pointer \in PagePointers : MouseDown(pointer)
  \/ \E pointer \in PagePointers : MouseMove(pointer)
  \/ \E shiftKey \in BOOLEAN : MouseUp(shiftKey, FALSE, FALSE)
  \/ Click
  \/ ShapeClick
  \/ NoClick
  \/ SelectionTimer

SpecPages == InitPages /\ [][NextPages]_vars

\* ids of the measurements stored for the active page
ActivePageIds ==
  {measurements[i].id :
     i \in {j \in 1..Len(measurements) : measurements[j].pageNumber = activePage}}

\* C21: rectangle selection and select-all are scoped to the active page: a
\* rectangle that ends adds to the selection only ids of measurements of the
\* active page, and Ctrl/Cmd+A in select mode makes the selection exactly
\* the set of ids of the measurements of the active page.
PageScopedSelection ==
  [][/\ EndsSelectGesture =>
          selectedMeasurementIds' \ selectedMeasurementIds \subseteq ActivePageIds
     /\ EndsSelectGesture /\ rectVisible /\ ~evt'.shiftKey =>
          selectedMeasurementIds' \subseteq ActivePageIds
     /\ lastEffect' = "selectedAll" =>
          selectedMeasurementIds' = ActivePageIds]_vars

\* on page 2 a rectangle over the spot shared with a Count of page 1 has
\* selected the Count of page 2 only
PageTwoRectangleReached ==
  /\ activePage = 2
  /\ phase = "up"
  /\ justCompletedSelection
  /\ ~evt.shiftKey
  /\ selectedMeasurementIds = {2}

(***************************************************************************)
(* Rectangle hit test at several zoom scales (SpecHitTest)                 *)
(***************************************************************************)
\* square images: they fill the 40 x 40 container at the scales 2, 1 and 4/5
HitImages == {Size(20, 20), Size(40, 40), Size(50, 50)}
\* device positions of the document points (0,0) and (10,10) at those scales
HitPointers == {<<0, 0>>, <<8, 8>>, <<10, 10>>, <<20, 20>>}

\* a Count as handleClick adds it to the list, by its document point
PlacedCountAt(id, x, y) ==
  [id |-> id, type |-> "count", value |-> Num(R(1)), name |-> <<"Count", id>>,
   units |-> "ft", points |-> <<Pt(R(x), R(y))>>,
   pageNumber |-> 1, category |-> "", notes |-> "", groupId |-> ""]

\* Counts at (5,5) and (20,20), the select tool chosen
InitHitTest ==
  /\ stageSize = ContainerSize
  /\ \E image \in HitImages :
       /\ imageSize = image
       /\ scale = InitialScale(stageSize, image)
  /\ position = Pt(RZero, RZero)
  /\ wheelCount = 0
  /\ InitSide
  /\ activeTool = "select"
  /\ measurements = <<PlacedCountAt(1, 5, 5), PlacedCountAt(2, 20, 20)>>
  /\ nextId = 3
  /\ selectedMeasurementIds = {}
  /\ calibration = <<>>
  /\ activePage = 1
  /\ activeMeasurementType = "none"
  /\ currentPoints = <<>>
  /\ previewPoint = <<>>
  /\ pendingPreview = <<>>
  /\ calibrationPoints = <<>>
  /\ showCalibrationDialog = FALSE
  /\ calibrationDistance = ""
  /\ calibrationUnits = "ft"
  /\ isSelecting = FALSE
  /\ selectionStart = <<>>
  /\ selectionRect = <<>>
  /\ pendingSelectionRect = <<>>
  /\ rectVisible = FALSE
  /\ justCompletedSelection = FALSE
  /\ isDragging = FALSE
  /\ dragStart = <<>>
  /\ mouseDownPos = <<>>
  /\ phase = "idle"
  /\ evt = NoEvt
  /\ closure = NoClosure
  /\ lastEffect = "none"

\* the image of another page or file can finish loading at any moment, also
\* while a button is held
NextHitTest ==
  \/ \E image \in HitImages : ImageLoad(image)
  \/ \E pointer \in HitPointers : MouseDown(pointer)
  \/ \E pointer \in HitPointers : MouseMove(pointer)
  \/ MouseUp(FALSE, FALSE, FALSE)
  \/ Click
  \/ ShapeClick
  \/ NoClick
  \/ SelectionTimer

SpecHitTest == InitHitTest /\ [][NextHitTest]_vars

\* the mouseup ends a rectangle dragged from (0,0) to (10,10)
EndsExampleRectangle ==
  /\ EndsSelectGesture
  /\ rectVisible
  /\ selectionStart = <<Pt(R(0), R(0))>>
  /\ FinalRect = Rect(R(0), R(0), R(10), R(10))

\* C22 as stated: at every zoom scale the rectangle dragged from (0,0) to
\* (10,10) hits the Count at (5,5) and not the Count at (20,20).
HitSetExampleAnyScale ==
  [][EndsExampleRectangle => selectedMeasurementIds' = {1}]_vars

\* C22: at a zoom scale above 4/5 the rectangle dragged from (0,0) to
\* (10,10) hits the Count at (5,5) and not the Count at (20,20); at every
\* scale it hits the Count at (5,5).
HitSetExample ==
  [][EndsExampleRectangle =>
       /\ 1 \in selectedMeasurementIds'
       /\ RLt(Frac(4, 5), scale) => selectedMeasurementIds' = {1}]_vars

\* the example rectangle was hit-tested at scale 1 and selected the Count at
\* (5,5) only
HitSetExampleReached ==
  /\ phase = "up"
  /\ scale = R(1)
  /\ evt.hitTested = <<Rect(R(0), R(0), R(10), R(10))>>
  /\ evt.start.kind = "stage"
  /\ selectedMeasurementIds = {1}

(***************************************************************************)
(* Default names under creation and deletion (SpecNames)                   *)
(***************************************************************************)
RECURSIVE WithoutIds(_, _)
\* prev.filter(m => !ids.has(m.id))
WithoutIds(ms, ids) ==
  IF ms = <<>> THEN <<>>
  ELSE IF Head(ms).id \in ids THEN WithoutIds(Tail(ms), ids)
  ELSE <<Head(ms)>> \o WithoutIds(Tail(ms), ids)

\* ids of the measurements in the list
MeasurementIds == {measurements[i].id : i \in 1..Len(measurements)}

\* handleMeasurementDelete leaving the selection as it was
handleMeasurementDeleteKeepingSelection(id) ==
  /\ phase = "idle"
  /\ measurements' = WithoutIds(measurements, {id})
  /\ lastEffect' = "none"
  /\ UNCHANGED <<viewVars, activeTool, nextId, selectedMeasurementIds,
                 calibration, activePage, captureVars, promptVars, dragVars,
                 phase, evt, closure>>

\* handleMeasurementDelete of the page, called by the delete button of a
\* row of the takeoff list
handleMeasurementDelete(id) ==
  /\ phase = "idle"
  /\ measurements' = WithoutIds(measurements, {id})
  /\ selectedMeasurementIds' = selectedMeasurementIds \ {id}
  /\ lastEffect' = "none"
  /\ UNCHANGED <<viewVars, activeTool, nextId, calibration, activePage,
                 captureVars, promptVars, dragVars, phase, evt, closure>>

\* measurements created in one behaviour
MaxCreated == 3
NamePointers == {<<0, 0>>, <<16, 0>>}

NextNames ==
  \/ SetTool("count")
  \/ \E next \in BOOLEAN : PageChange(next)
  \/ \E pointer \in NamePointers : MouseDown(pointer)
  \/ MouseUp(FALSE, FALSE, FALSE)
  \/ Click /\ nextId' <= MaxCreated + 1
  \/ ShapeClick
  \/ \E id \in MeasurementIds : handleMeasurementDelete(id)

SpecNames == Init /\ [][NextNames]_vars

\* C26: no two measurements of the same type that exist at the same time
\* carry the same default name.
DefaultNamesUnique ==
  \A i, j \in 1..Len(measurements) :
     i # j /\ measurements[i].type = measurements[j].type =>
        measurements[i].name # measurements[j].name

(***************************************************************************)
(* Values of Linear measurements (SpecValues)                              *)
(***************************************************************************)
\* the units the calibration prompt offers
AllUnits == {"ft", "in", "m", "cm", "mm"}

\* device positions of the document points (0,0), (3,4) and (6,8)
ValuePointers == {<<0, 10>>, <<6, 18>>, <<12, 26>>}

\* the calibration the page holds: none, the record saved for "no
\* calibration", or 10 pixels for 2 units in each of the units
ValueCalibrations ==
  {<<>>,
   <<[pixelDistance |-> RZero, realDistance |-> RZero, units |-> "ft",
      isCalibrated |-> FALSE]>>}
  \cup {<<[pixelDistance |-> R(10), realDistance |-> R(2), units |-> u,
           isCalibrated |-> TRUE]>> : u \in AllUnits}

InitValues ==
  /\ InitView
  /\ activeTool = "none"
  /\ measurements = <<>>
  /\ nextId = 1
  /\ selectedMeasurementIds = {}
  /\ calibration \in ValueCalibrations
  /\ activePage = 1
  /\ activeMeasurementType = "none"
  /\ currentPoints = <<>>
  /\ previewPoint = <<>>
  /\ pendingPreview = <<>>
  /\ calibrationPoints = <<>>
  /\ showCalibrationDialog = FALSE
  /\ calibrationDistance = ""
  /\ calibrationUnits = "ft"
  /\ isSelecting = FALSE
  /\ selectionStart = <<>>
  /\ selectionRect = <<>>
  /\ pendingSelectionRect = <<>>
  /\ rectVisible = FALSE
  /\ justCompletedSelection = FALSE
  /\ isDragging = FALSE
  /\ dragStart = <<>>
  /\ mouseDownPos = <<>>
  /\ phase = "idle"
  /\ evt = NoEvt
  /\ closure = NoClosure
  /\ lastEffect = "none"

NextValues ==
  \/ SetTool("length")
  \/ \E pointer \in ValuePointers : MouseDown(pointer)
  \/ MouseUp(FALSE, FALSE, FALSE)
  \/ Click
  \/ ShapeClick
  \/ KeyEscape

SpecValues == InitValues /\ [][NextValues]_vars

\* the step emits a Linear
EmitsLinear ==
  /\ Len(measurements') = Len(measurements) + 1
  /\ LastEmitted.type = "length"

Calibrated == calibration # <<>> /\ calibration[1].isCalibrated

\* C27: under a calibration of pixelDistance P, realDistance R and unit u, a
\* Linear whose two points are P pixels apart is emitted with unit u and
\* value R.
ValueInStoredUnit ==
  [][/\ EmitsLinear
     /\ Calibrated
     /\ Len(LastEmitted.points) = 2
     /\ DistSq(LastEmitted.points[1], LastEmitted.points[2])
          = RMul(calibration[1].pixelDistance, calibration[1].pixelDistance)
     => /\ LastEmitted.units = calibration[1].units
        /\ LastEmitted.value = Num(calibration[1].realDistance)]_vars

\* value is the finite number v >= 0 whose square is square
IsRootOf(value, square) ==
  value.kind = "num" /\ RLe(RZero, value.v) /\ RMul(value.v, value.v) = square

\* C28: a Linear of two points is emitted with the distance of the points as
\* its value when there is no calibration or isCalibrated is false, and with
\* that distance times realDistance / pixelDistance under a calibration in
\* feet; the points (0,0), (3,4) give 5 without calibration and 1 under 10
\* pixels for 2 ft.
LinearValue ==
  [][EmitsLinear /\ Len(LastEmitted.points) = 2 =>
       LET points == LastEmitted.points
           square == DistSq(points[1], points[2])
           example == points = <<Pt(R(0), R(0)), Pt(R(3), R(4))>>
       IN  /\ ~Calibrated =>
                /\ IsRootOf(LastEmitted.value, square)
                /\ example => LastEmitted.value = Num(R(5))
           /\ Calibrated /\ calibration[1].units = "ft" =>
                LET factor == RDiv(calibration[1].realDistance,
                                   calibration[1].pixelDistance)
                IN  /\ IsRootOf(LastEmitted.value,
                                RMul(square, RMul(factor, factor)))
                    /\ example /\ factor = Frac(2, 10) =>
                         LastEmitted.value = Num(R(1))]_vars

\* the Linear from (0,0) to (3,4) was emitted with the value 1 under the
\* calibration of 10 pixels for 2 ft
LinearExampleCalibrated ==
  /\ Len(measurements) = 1
  /\ measurements[1].type = "length"
  /\ measurements[1].points = <<Pt(R(0), R(0)), Pt(R(3), R(4))>>
  /\ calibration = <<[pixelDistance |-> R(10), realDistance |-> R(2),
                      units |-> "ft", isCalibrated |-> TRUE]>>
  /\ measurements[1].value = Num(R(1))
  /\ measurements[1].units = "ft"

(***************************************************************************)
(* Area of a Surface (SpecArea)                                            *)
(***************************************************************************)
\* the corners of the 4 x 3 rectangle
AreaPoints == {Pt(R(0), R(0)), Pt(R(4), R(0)), Pt(R(4), R(3)), Pt(R(0), R(3))}
\* points of the drafts
MaxAreaPoints == 4
\* an image shown at the scale 4, where the corners are farther apart than
\* the closing threshold
AreaImage == Size(10, 10)

\* Surface drafts over the corners: a click near the first point closes a
\* draft of three or more points, so no fourth point lies near the first
AreaInputs ==
  {points \in UNION {[1..n -> AreaPoints] : n \in 1..MaxAreaPoints} :
     \A i \in 4..Len(points) :
        ~isPointNear(points[i], points[1],
                     RDiv(R(CLOSE_POLYGON_THRESHOLD),
                          InitialScale(ContainerSize, AreaImage)))}

InitArea ==
  /\ stageSize = ContainerSize
  /\ imageSize = AreaImage
  /\ scale = InitialScale(ContainerSize, AreaImage)
  /\ position = Pt(RZero, RZero)
  /\ wheelCount = 0
  /\ InitSide
  /\ activeTool = "area"
  /\ measurements = <<>>
  /\ nextId = 1
  /\ selectedMeasurementIds = {}
  /\ calibration = <<>>
  /\ activePage = 1
  /\ activeMeasurementType = "area"
  /\ currentPoints \in AreaInputs
  /\ previewPoint = <<>>
  /\ pendingPreview = <<>>
  /\ calibrationPoints = <<>>
  /\ showCalibrationDialog = FALSE
  /\ calibrationDistance = ""
  /\ calibrationUnits = "ft"
  /\ isSelecting = FALSE
  /\ selectionStart = <<>>
  /\ selectionRect = <<>>
  /\ pendingSelectionRect = <<>>
  /\ rectVisible = FALSE
  /\ justCompletedSelection = FALSE
  /\ isDragging = FALSE
  /\ dragStart = <<>>
  /\ mouseDownPos = <<>>
  /\ phase = "idle"
  /\ evt = NoEvt
  /\ closure = NoClosure
  /\ lastEffect = "none"

NextArea ==
  \/ KeyEnter
  \/ KeyEscape

SpecArea == InitArea /\ [][NextArea]_vars

\* the point order started k places later
RotateBy(points, k) ==
  [i \in 1..Len(points) |-> points[((i - 1 + k) % Len(points)) + 1]]
\* the point order reversed
Reversed(points) ==
  [i \in 1..Len(points) |-> points[Len(points) + 1 - i]]

ExampleRectangle ==
  <<Pt(R(0), R(0)), Pt(R(4), R(0)), Pt(R(4), R(3)), Pt(R(0), R(3))>>

\* C29: the uncalibrated area of a sequence of at least 3 points is the
\* same for every cyclic rotation of the sequence and for its reversal,
\* whose signed shoelace sum is the negated one; it is 12 for the 4 x 3
\* rectangle from every starting corner in both directions, and 0 for
\* fewer than 3 points.  The Surface that Enter emits carries that area.
AreaOrderInvariant ==
  /\ [](activeMeasurementType = "area" =>
          LET area == calculateArea(currentPoints, <<>>)
          IN  /\ Len(currentPoints) < 3 => area = Num(RZero)
              /\ Len(currentPoints) >= 3 =>
                   /\ \A k \in 0..(Len(currentPoints) - 1) :
                        calculateArea(RotateBy(currentPoints, k), <<>>) = area
                   /\ calculateArea(Reversed(currentPoints), <<>>) = area
                   /\ Shoelace(Reversed(currentPoints), 1)
                        = RSub(RZero, Shoelace(currentPoints, 1))
              /\ (\E k \in 0..3 :
                     \/ currentPoints = RotateBy(ExampleRectangle, k)
                     \/ currentPoints = RotateBy(Reversed(ExampleRectangle), k))
                   => area = Num(R(12)))
  /\ [][Len(measurements') > Len(measurements) =>
          /\ LastEmitted.value = calculateArea(Reversed(currentPoints), <<>>)
          /\ \A k \in 0..(Len(currentPoints) - 1) :
               LastEmitted.value = calculateArea(RotateBy(currentPoints, k), <<>>)]_vars

\* Enter has emitted the rectangle drawn in the reverse direction from
\* another corner, with the area 12
ReversedRectangleEmitted ==
  /\ lastEffect = "entered"
  /\ Len(measurements) = 1
  /\ measurements[1].type = "area"
  /\ measurements[1].points = RotateBy(Reversed(ExampleRectangle), 1)
  /\ measurements[1].value = Num(R(12))

(***************************************************************************)
(* Edits of existing measurements (SpecEdit)                               *)
(***************************************************************************)
\* the updates the callers of onMeasurementUpdate pass: handleSave of the
\* takeoff list (name and notes, in its second form also the category) and
\* the category menu of the Viewer (category); <<>> is a key left out
EditUpdates ==
  {[name |-> <<<<"Wall", 0>>>>, notes |-> <<"checked">>, category |-> <<>>],
   [name |-> <<<<"Wall", 0>>>>, notes |-> <<"checked">>, category |-> <<"Walls">>],
   [name |-> <<>>, notes |-> <<>>, category |-> <<"Walls">>]}

\* an update that also moves the measurement
MergedMoving(m, updates) ==
  [m EXCEPT !.points = [i \in 1..Len(m.points) |->
                          Pt(RAdd(m.points[i].x, R(1)), m.points[i].y)]]

\* { ...m, ...updates }
Merged(m, updates) ==
  [m EXCEPT !.name = IF updates.name = <<>> THEN m.name ELSE updates.name[1],
            !.notes = IF updates.notes = <<>> THEN m.notes ELSE updates.notes[1],
            !.category = IF updates.category = <<>> THEN m.category
                         ELSE updates.category[1]]

\* handleMeasurementUpdate of the page
handleMeasurementUpdate(id, updates) ==
  /\ phase = "idle"
  /\ measurements' =
       [i \in 1..Len(measurements) |->
          IF measurements[i].id = id THEN Merged(measurements[i], updates)
          ELSE measurements[i]]
  /\ lastEffect' = "none"
  /\ UNCHANGED <<viewVars, activeTool, nextId, selectedMeasurementIds,
                 calibration, activePage, captureVars, promptVars, dragVars,
                 phase, evt, closure>>

\* handleGroupSelected of the page
handleGroupSelected(groupId) ==
  /\ phase = "idle"
  /\ measurements' =
       [i \in 1..Len(measurements) |->
          IF measurements[i].id \in selectedMeasurementIds
          THEN [measurements[i] EXCEPT !.groupId = groupId]
          ELSE measurements[i]]
  /\ lastEffect' = "none"
  /\ UNCHANGED <<viewVars, activeTool, nextId, selectedMeasurementIds,
                 calibration, activePage, captureVars, promptVars, dragVars,
                 phase, evt, closure>>

\* handleUngroupSelected of the page: groupId null ("" here)
handleUngroupSelected ==
  /\ phase = "idle"
  /\ measurements' =
       [i \in 1..Len(measurements) |->
          IF measurements[i].id \in selectedMeasurementIds
          THEN [measurements[i] EXCEPT !.groupId = ""]
          ELSE measurements[i]]
  /\ lastEffect' = "none"
  /\ UNCHANGED <<viewVars, activeTool, nextId, selectedMeasurementIds,
                 calibration, activePage, captureVars, promptVars, dragVars,
                 phase, evt, closure>>

\* handleCalibrationUpdate of the page: the calibration is replaced and the
\* tool set to null
handleCalibrationUpdate(newCalibration) ==
  /\ phase = "idle"
  /\ calibration' = <<newCalibration>>
  /\ activeTool' = "none"
  /\ ToolChangeEffect("none")
  /\ lastEffect' = "none"
  /\ UNCHANGED <<viewVars, measurements, nextId, selectedMeasurementIds,
                 activePage, showCalibrationDialog, calibrationDistance,
                 calibrationUnits, justCompletedSelection, dragStart, phase,
                 evt, closure>>

\* onMeasurementSelect of the takeoff list: the row clicked becomes the
\* selection
TakeoffSelect(id) ==
  /\ phase = "idle"
  /\ \E i \in 1..Len(measurements) : measurements[i].id = id
  /\ selectedMeasurementIds' = {id}
  /\ lastEffect' = "none"
  /\ UNCHANGED <<viewVars, activeTool, measurements, nextId, calibration,
                 activePage, captureVars, promptVars, dragVars, phase, evt,
                 closure>>

EditCalibrations ==
  {[pixelDistance |-> R(4), realDistance |-> R(1), units |-> "m",
    isCalibrated |-> TRUE]}

\* a pan gesture: the button goes down at the first position and the
\* pointer moves to the second
EditPointers == <<<<0, 0>>, <<16, 0>>>>
\* wheel events of one behaviour of SpecEdit
MaxEditWheel == 1

\* a Linear as handleMouseUp adds it to the list, between two pointer
\* positions of the initial view, without calibration
PlacedLinear(id, from, to) ==
  [id |-> id, type |-> "length",
   value |-> calculateLength(<<getImageCoordinatesFromPointer(from),
                               getImageCoordinatesFromPointer(to)>>, <<>>),
   name |-> <<"Linear", 1>>, units |-> "ft",
   points |-> <<getImageCoordinatesFromPointer(from),
                getImageCoordinatesFromPointer(to)>>,
   pageNumber |-> 1, category |-> "", notes |-> "", groupId |-> ""]

\* a Linear and a Count were placed below the row of EditPointers, then the
\* tool was set to null
InitEdit ==
  /\ InitView
  /\ activeTool = "none"
  /\ measurements = <<PlacedLinear(1, <<0, 30>>, <<8, 30>>),
                      PlacedCount(2, <<40, 30>>)>>
  /\ nextId = 3
  /\ selectedMeasurementIds = {}
  /\ calibration = <<>>
  /\ activePage = 1
  /\ activeMeasurementType = "none"
  /\ currentPoints = <<>>
  /\ previewPoint = <<>>
  /\ pendingPreview = <<>>
  /\ calibrationPoints = <<>>
  /\ showCalibrationDialog = FALSE
  /\ calibrationDistance = ""
  /\ calibrationUnits = "ft"
  /\ isSelecting = FALSE
  /\ selectionStart = <<>>
  /\ selectionRect = <<>>
  /\ pendingSelectionRect = <<>>
  /\ rectVisible = FALSE
  /\ justCompletedSelection = FALSE
  /\ isDragging = FALSE
  /\ dragStart = <<>>
  /\ mouseDownPos = <<>>
  /\ phase = "idle"
  /\ evt = NoEvt
  /\ closure = NoClosure
  /\ lastEffect = "none"

NextEdit ==
  \/ \E id \in MeasurementIds, updates \in EditUpdates :
       handleMeasurementUpdate(id, updates)
  \/ handleGroupSelected("g1")
  \/ handleUngroupSelected
  \/ \E newCalibration \in EditCalibrations : handleCalibrationUpdate(newCalibration)
  \/ \E id \in 1..2 : TakeoffSelect(id)
  \/ \E id \in MeasurementIds : handleMeasurementDelete(id)
  \/ \E zoomOut \in BOOLEAN :
       handleWheel(<<0, 0>>, zoomOut) /\ wheelCount' <= MaxEditWheel
  \/ SetTool("pan")
  \/ MouseDown(EditPointers[1])
  \/ MouseMove(EditPointers[2]) /\ RLe(RAbs(position'.x), R(MaxPan))
  \/ MouseUp(FALSE, FALSE, FALSE)
  \/ Click

SpecEdit == InitEdit /\ [][NextEdit]_vars

\* C30: a step changes the points of no measurement that exists before and
\* after it: renaming, notes, category, grouping, ungrouping, a new
\* calibration, selection, zoom and pan leave the geometry as it is, and
\* only a deletion takes a measurement out of the list.
GeometryNeverChanged ==
  [][/\ \A i \in 1..Len(measurements) : \A j \in 1..Len(measurements') :
          measurements'[j].id = measurements[i].id =>
             /\ measurements'[j].points = measurements[i].points
             /\ measurements'[j].type = measurements[i].type
     /\ Len(measurements') < Len(measurements) =>
          /\ Len(measurements') = Len(measurements) - 1
          /\ \E id \in 1..2 : measurements' = WithoutIds(measurements, {id})]_vars

\* the Linear was renamed, categorized and grouped, the calibration was
\* replaced and the view zoomed and panned; its points are those it got
EditedLinearKeepsPoints ==
  /\ Len(measurements) = 2
  /\ measurements[1].name = <<"Wall", 0>>
  /\ measurements[1].category = "Walls"
  /\ measurements[1].groupId = "g1"
  /\ calibration # <<>>
  /\ wheelCount > 0
  /\ position.x = R(16)
  /\ selectedMeasurementIds = {1}
  /\ measurements[1].points = <<Pt(R(0), R(10)), Pt(R(4), R(10))>>

(***************************************************************************)
(* The view before an image has loaded (SpecMount)                         *)
(***************************************************************************)
\* the state after mount: no image yet (size 0 x 0), scale 1
InitMount ==
  /\ stageSize = ContainerSize
  /\ imageSize = Size(0, 0)
  /\ scale = R(1)
  /\ position = Pt(RZero, RZero)
  /\ wheelCount = 0
  /\ InitSide
  /\ InitEngine

SpecMount == InitMount /\ [][NextView]_vars

\* C31: when the size of the stage or of the image is zero, the image
\* offset is (0,0).
ZeroSizeZeroOffset ==
  (imageSize.width = 0 \/ imageSize.height = 0
     \/ stageSize.width = 0 \/ stageSize.height = 0)
  => imageOffset = Pt(RZero, RZero)

(***************************************************************************)
(* Labor hours of an estimate (SpecLabor)                                  *)
(***************************************************************************)
WallAreas == {0, 1, 100, 200}
CeilingAreas == {0, 50}
OpeningLists == {<<>>, <<Opening(20)>>, <<Opening(20), Opening(150)>>}

InitLabor ==
  /\ stageSize = ContainerSize
  /\ \E image \in InitImages :
       /\ imageSize = image
       /\ scale = InitialScale(stageSize, image)
  /\ position = Pt(RZero, RZero)
  /\ wheelCount = 0
  /\ InitEngine
  /\ \E wall \in WallAreas, ceiling \in CeilingAreas, openings \in OpeningLists :
       inputs = EstimateInputs(wall, ceiling, openings)
  /\ finishLevel \in FinishLevels
  /\ labor = <<>>
  /\ showGroupDialog = FALSE

NextLabor == EstimateLabor

SpecLabor == InitLabor /\ [][NextLabor]_vars

\* C32: the total of the labor hours is the hanging hours plus the
\* finishing hours of the selected finish level (total square feet times
\* that level's rate) plus the cleanup hours.
LaborTotal ==
  labor # <<>> =>
    LET totalSF == calculateAreas(inputs).totalSF
    IN  /\ labor[1].finishing[finishLevel]
             = RMul(totalSF, finishingHoursPerSF(finishLevel))
        /\ labor[1].total
             = RAdd(RAdd(labor[1].hanging, labor[1].finishing[finishLevel]),
                    labor[1].cleanup)

\* C33: while the active tool is not the select tool, no mousedown, mouseup
\* or click on the canvas changes the selection.
SelectionOnlyInSelectMode ==
  [][(activeTool # "select" /\ phase' # phase)
       => selectedMeasurementIds' = selectedMeasurementIds]_vars

(***************************************************************************)
(* Drafts and the selection across pages and files (SpecDraftPages)        *)
(***************************************************************************)
\* handleFileSelect: another file becomes the active one, shown from its
\* first page; the Viewer stays mounted
handleFileSelect ==
  /\ phase = "idle"
  /\ activePage' = 1
  /\ lastEffect' = "none"
  /\ UNCHANGED <<viewVars, activeTool, measurements, nextId,
                 selectedMeasurementIds, calibration, captureVars, promptVars,
                 dragVars, phase, evt, closure>>

DraftPointers == {<<0, 0>>, <<16, 0>>}

NextDraftPages ==
  \/ SetTool("length")
  \/ \E next \in BOOLEAN : PageChange(next)
  \/ handleFileSelect
  \/ \E pointer \in DraftPointers : MouseDown(pointer)
  \/ MouseUp(FALSE, FALSE, FALSE)
  \/ Click
  \/ ShapeClick
  \/ KeyEnter
  \/ KeyEscape

SpecDraftPages == Init /\ [][NextDraftPages]_vars

\* C34: a draft does not survive a change of the active page, so every
\* point of a finalized measurement was captured on the page recorded on it.
DraftEndsWithPage ==
  [][activePage' # activePage
       => (activeMeasurementType' = "none" /\ currentPoints' = <<>>)]_vars

\* C35: the selection holds only ids of measurements on the active page.
SelectionOnActivePage == selectedMeasurementIds \subseteq ActivePageIds

(***************************************************************************)
(* Deleting measurements (SpecDelete)                                      *)
(***************************************************************************)
\* handleMeasurementDeleteMultiple of the page: the list and the selection
\* without the ids
handleMeasurementDeleteMultiple(ids) ==
  [measurements |-> WithoutIds(measurements, ids),
   selectedMeasurementIds |-> selectedMeasurementIds \ ids]

\* handleKeyDown, key Delete: the selected measurements are deleted and the
\* selection is cleared, unless a draft or the group dialog is open
KeyDelete ==
  /\ phase = "idle"
  /\ IF selectedMeasurementIds # {} /\ ~showGroupDialog
        /\ activeMeasurementType = "none"
     THEN /\ measurements' =
               handleMeasurementDeleteMultiple(selectedMeasurementIds).measurements
          /\ selectedMeasurementIds' = {}
          /\ lastEffect' = "deleted"
     ELSE /\ UNCHANGED <<measurements, selectedMeasurementIds>>
          /\ lastEffect' = "deleteIgnored"
  /\ UNCHANGED <<viewVars, activeTool, nextId, calibration, activePage,
                 captureVars, promptVars, dragVars, phase, evt, closure>>

\* the Group entry of the context menu, which is shown over a selection
OpenGroupDialog ==
  /\ phase = "idle"
  /\ selectedMeasurementIds # {}
  /\ ~showGroupDialog
  /\ showGroupDialog' = TRUE
  /\ lastEffect' = "none"
  /\ UNCHANGED <<scale, position, imageSize, stageSize, wheelCount,
                 estimateVars, pageVars, captureVars, promptVars, dragVars,
                 phase, evt, closure>>

\* onClose of the group dialog
GroupDialogClose ==
  /\ phase = "idle"
  /\ showGroupDialog
  /\ showGroupDialog' = FALSE
  /\ lastEffect' = "none"
  /\ UNCHANGED <<scale, position, imageSize, stageSize, wheelCount,
                 estimateVars, pageVars, captureVars, promptVars, dragVars,
                 phase, evt, closure>>

\* onConfirm of the group dialog: handleGroupSelected, then the dialog closes
GroupDialogConfirm(groupId) ==
  /\ phase = "idle"
  /\ showGroupDialog
  /\ measurements' =
       [i \in 1..Len(measurements) |->
          IF measurements[i].id \in selectedMeasurementIds
          THEN [measurements[i] EXCEPT !.groupId = groupId]
          ELSE measurements[i]]
  /\ showGroupDialog' = FALSE
  /\ lastEffect' = "none"
  /\ UNCHANGED <<scale, position, imageSize, stageSize, wheelCount,
                 estimateVars, activeTool, nextId, selectedMeasurementIds,
                 calibration, activePage, captureVars, promptVars, dragVars,
                 phase, evt, closure>>

DeleteTools == {"select", "length", "calibrate"}
\* ids named by the rows and callers of the page; 3 is not in the list at
\* the start
DeleteIds == 1..3

\* two Counts on the page, the select tool chosen
InitDelete ==
  /\ InitView
  /\ activeTool = "select"
  /\ measurements = <<PlacedCountAt(1, 5, 5), PlacedCountAt(2, 20, 20)>>
  /\ nextId = 3
  /\ selectedMeasurementIds = {}
  /\ calibration = <<>>
  /\ activePage = 1
  /\ activeMeasurementType = "none"
  /\ currentPoints = <<>>
  /\ previewPoint = <<>>
  /\ pendingPreview = <<>>
  /\ calibrationPoints = <<>>
  /\ showCalibrationDialog = FALSE
  /\ calibrationDistance = ""
  /\ calibrationUnits = "ft"
  /\ isSelecting = FALSE
  /\ selectionStart = <<>>
  /\ selectionRect = <<>>
  /\ pendingSelectionRect = <<>>
  /\ rectVisible = FALSE
  /\ justCompletedSelection = FALSE
  /\ isDragging = FALSE
  /\ dragStart = <<>>
  /\ mouseDownPos = <<>>
  /\ phase = "idle"
  /\ evt = NoEvt
  /\ closure = NoClosure
  /\ lastEffect = "none"

NextDelete ==
  \/ \E tool \in DeleteTools : SetTool(tool)
  \/ KeySelectAll
  \/ \E id \in MeasurementIds : TakeoffSelect(id)
  \/ KeyDelete
  \/ \E id \in DeleteIds : handleMeasurementDelete(id)
  \/ \E id \in DeleteIds, updates \in EditUpdates :
       handleMeasurementUpdate(id, updates)
  \/ OpenGroupDialog
  \/ GroupDialogClose
  \/ GroupDialogConfirm("g1")
  \/ \E pointer \in DraftPointers : MouseDown(pointer)
  \/ MouseUp(FALSE, FALSE, FALSE) /\ nextId' <= MaxCreated + 1
  \/ Click
  \/ ShapeClick
  \/ CalibrationCancel

SpecDelete == InitDelete /\ [][NextDelete]_vars

\* C36: every id in the selection is the id of a measurement in the list,
\* and a delete or an update that names an id not in the list changes
\* neither the list nor the selection.
SelectedIdsExist ==
  /\ [](selectedMeasurementIds \subseteq MeasurementIds)
  /\ [][\A id \in DeleteIds \ MeasurementIds :
          (\/ handleMeasurementDelete(id)
           \/ \E updates \in EditUpdates : handleMeasurementUpdate(id, updates))
          => UNCHANGED <<measurements, selectedMeasurementIds>>]_vars

\* the Delete key has removed the selected Count 1
SelectedCountDeleted ==
  /\ lastEffect = "deleted"
  /\ MeasurementIds = {2}
  /\ selectedMeasurementIds = {}

\* C40: the Delete key, pressed with a non-empty selection while no draft
\* and no dialog is open, removes exactly the selected measurements and
\* empties the selection; pressed while a draft or a dialog is open it
\* changes neither the list nor the selection.
DeleteKeyEffect ==
  [][KeyDelete =>
       IF \/ activeMeasurementType # "none"
          \/ showGroupDialog
          \/ showCalibrationDialog
       THEN UNCHANGED <<measurements, selectedMeasurementIds>>
       ELSE selectedMeasurementIds # {} =>
              /\ measurements' = WithoutIds(measurements, selectedMeasurementIds)
              /\ selectedMeasurementIds' = {}]_vars

\* C37: whenever the calibration prompt is open, exactly two calibration
\* points are pending and the active tool is the calibration tool.
PromptHasTwoPoints ==
  showCalibrationDialog =>
    Len(calibrationPoints) = 2 /\ activeTool = "calibrate"

\* C38: whenever no Linear or Surface draft is open the preview point is
\* null, also after a frame-throttled preview update that a pointer move
\* scheduled before the draft was finalized or cancelled.
NoDraftNoPreview ==
  activeMeasurementType = "none" => previewPoint = <<>>

\* C39: the click event of a gesture whose mouseup completed a rectangle
\* selection leaves the selection unchanged: the "just completed" flag is
\* still set when that click is handled, and the expiry of the timer
\* afterwards changes nothing but the flag.
ClickAfterRectangleKeepsSelection ==
  /\ [](phase = "up" /\ evt.hitTested # <<>> => justCompletedSelection)
  /\ [][/\ IsClick /\ evt.hitTested # <<>> =>
             selectedMeasurementIds' = selectedMeasurementIds
        /\ justCompletedSelection /\ ~justCompletedSelection' =>
             selectedMeasurementIds' = selectedMeasurementIds]_vars

\* the click after a completed rectangle has been handled with the timer
\* still running, and the rectangle's selection is in place
RectangleClickHandled ==
  /\ phase = "idle"
  /\ justCompletedSelection
  /\ selectedMeasurementIds # {}
  /\ activeTool = "select"

====
